---- MODULE Spec2Model ----
(***************************************************************************)
(* Entitlement ledger and effects flow of bot.py.                          *)
(*                                                                         *)
(* The user store is a JSON object {str(user_id): record}; a record is a   *)
(* dict whose fields may be absent.  Both are modelled as functions whose  *)
(* domain is the set of keys present.  Every ledger operation is a         *)
(* coroutine: guards, `async with USER_STORE_LOCK`, load in a thread,      *)
(* mutation on the loop, save in a thread, release.  A task of the model   *)
(* is one such call; its pc is the await it is suspended at.               *)
(***************************************************************************)
EXTENDS Integers, Sequences, FiniteSets, TLC

VARIABLES store,   \* contents of user_store.json
          now,     \* int(time.time())
          lock,    \* USER_STORE_LOCK: 0 when free, else the task inside it
          pc,      \* per task: idle, acquire, load, body, release, done
          op,      \* per task: the call it runs
          loc,     \* per task: the `store` local loaded from the file
          ret,     \* per task: the value the call returned (None, True and
                   \* False as strings, a record as a dict)
          hist,    \* history of the calls, kept for the properties only
          user_data, \* context.user_data of the user of the effects flow
          files,   \* the temporary media files that exist in downloads/
          disk,    \* what USER_STORE_PATH holds: missing, unreadable, empty,
                   \* invalid, not_object, or object (the JSON object `store`)
          tmp      \* what USER_STORE_PATH.with_suffix(".tmp") holds

vars == <<store, now, lock, pc, op, loc, ret, hist, user_data, files, disk, tmp>>

----------------------------------------------------------------------------
\* Bounds of the model.

MaxUser == 2
MaxTask == 2
MaxAdders == 3
MaxBumpers == 5
MaxRefUser == 3
MaxNow == 4
MaxCredits == 2
MaxUsed == 3
MaxUntil == 6
\* PREMIUM_DURATION_SECONDS (30 days), scaled down
PremiumSeconds == 3
MaxSeconds == 2
MaxAmount == 2
\* seconds per UTC day (86400 in time.gmtime), scaled down
DayLen == 2

\* Program constants.
FREE_EFFECTS_PER_DAY == 2
AD_EVERY_SUCCESS_COUNT == 5

Users == 1..MaxUser
Tasks == 1..MaxTask

----------------------------------------------------------------------------
\* Python values.

\* str(n) of a non-negative int: its decimal digits
RECURSIVE str(_)
str(n) == IF n < 10 THEN <<n>> ELSE Append(str(n \div 10), n % 10)

\* {}
EmptyDict == [k \in {} |-> 0]

\* d[k] = v
SetItem(d, k, v) == [x \in (DOMAIN d) \cup {k} |-> IF x = k THEN v ELSE d[x]]

\* rec = store.get(key); if not isinstance(rec, dict): rec = {}
RecordOf(st, key) == IF key \in DOMAIN st THEN st[key] ELSE EmptyDict

\* int(rec.get(f)) if isinstance(rec.get(f), (int, float)) else 0
IntField(rec, f) == IF f \in DOMAIN rec THEN rec[f] ELSE 0

\* time.strftime("%Y-%m-%d", time.gmtime()): one key per UTC day, here the
\* day's number
_today_key(t) == t \div DayLen

_is_premium_now(rec, t) ==
    "premium_until" \in DOMAIN rec /\ rec["premium_until"] > t

_get_credits(rec) ==
    IF "credits" \in DOMAIN rec /\ rec["credits"] > 0 THEN rec["credits"] ELSE 0

Max(a, b) == IF a >= b THEN a ELSE b

\* the outcome of a call: a value returned, or an exception raised
Returned(v) == [raised |-> FALSE, data |-> v]
Raised == [raised |-> TRUE, data |-> EmptyDict]

\* mutant: read_text and json.loads are not guarded by try/except
_load_user_store_sync_NoExcept(d, st) ==
    IF d = "missing" THEN Returned(EmptyDict)
    ELSE IF d \in {"unreadable", "invalid"} THEN Raised
    ELSE IF d = "empty" THEN Returned(EmptyDict)
    ELSE IF d = "not_object" THEN Returned(EmptyDict)
    ELSE Returned(st)

\* _load_user_store_sync on a file in condition d (holding st when it is a
\* JSON object)
_load_user_store_sync(d, st) ==
    IF d = "missing" THEN Returned(EmptyDict)           \* not exists()
    ELSE IF d = "unreadable" THEN Returned(EmptyDict)   \* read_text raises
    ELSE IF d = "empty" THEN Returned(EmptyDict)        \* raw is ""
    ELSE IF d = "invalid" THEN Returned(EmptyDict)      \* json.loads raises
    ELSE IF d = "not_object" THEN Returned(EmptyDict)   \* not isinstance(data, dict)
    ELSE Returned(st)

\* user_store.tmp does not exist
NoTmp == [state |-> "absent", data |-> EmptyDict]

----------------------------------------------------------------------------
\* The locked sections of the ledger operations, as functions of the loaded
\* store st and the clock t read inside the section.

\* mutant: the grant always starts from the clock
_grant_premium_FromNow(st, user_id, seconds, t) ==
    LET key == str(user_id)
        rec == RecordOf(st, key)
    IN SetItem(st, key, SetItem(rec, "premium_until", t + seconds))

\* the store _grant_premium saves
_grant_premium(st, user_id, seconds, t) ==
    LET key == str(user_id)
        rec == RecordOf(st, key)
        base0 == IntField(rec, "premium_until")
        base == IF base0 < t THEN t ELSE base0
    IN SetItem(st, key, SetItem(rec, "premium_until", base + seconds))

\* the store _add_credits saves
_add_credits(st, user_id, amount) ==
    LET key == str(user_id)
        rec == RecordOf(st, key)
        cur == IntField(rec, "credits")
    IN SetItem(st, key, SetItem(rec, "credits", Max(0, cur + amount)))

\* mutant: the stored count is used whatever its day
UsedToday_AnyDay(rec, t) == IntField(rec, "effects_free_used")

\* free uses counted for the day of t
UsedToday(rec, t) ==
    IF "effects_free_day" \in DOMAIN rec /\ rec["effects_free_day"] = _today_key(t)
    THEN IntField(rec, "effects_free_used")
    ELSE 0

\* mutant: the free quota is looked at before premium
_plan_effect_entitlement_FreeFirst(st, user_id, t) ==
    LET rec == RecordOf(st, str(user_id))
    IN IF UsedToday(rec, t) < FREE_EFFECTS_PER_DAY THEN "free"
       ELSE IF _is_premium_now(rec, t) THEN "premium"
       ELSE IF _get_credits(rec) > 0 THEN "credit"
       ELSE "None"

\* mutant: the balance is not looked at before 'credit' is returned
_plan_effect_entitlement_CreditAnyway(st, user_id, t) ==
    LET rec == RecordOf(st, str(user_id))
    IN IF _is_premium_now(rec, t) THEN "premium"
       ELSE IF UsedToday(rec, t) < FREE_EFFECTS_PER_DAY THEN "free"
       ELSE "credit"

\* the value _plan_effect_entitlement returns
_plan_effect_entitlement(st, user_id, t) ==
    LET rec == RecordOf(st, str(user_id))
    IN IF _is_premium_now(rec, t) THEN "premium"
       ELSE IF UsedToday(rec, t) < FREE_EFFECTS_PER_DAY THEN "free"
       ELSE IF _get_credits(rec) > 0 THEN "credit"
       ELSE "None"

\* mutant: the credit is taken without the floor at 0
_finalize_effect_entitlement_NoFloor(st, user_id, kind, t) ==
    LET key == str(user_id)
        rec == RecordOf(st, key)
        rec2 == IF kind = "free"
                THEN SetItem(SetItem(rec, "effects_free_day", _today_key(t)),
                             "effects_free_used", UsedToday(rec, t) + 1)
                ELSE IF kind = "credit"
                THEN SetItem(rec, "credits", IntField(rec, "credits") - 1)
                ELSE rec
    IN SetItem(st, key, rec2)

\* the store _finalize_effect_entitlement saves (kind is free or credit)
_finalize_effect_entitlement(st, user_id, kind, t) ==
    LET key == str(user_id)
        rec == RecordOf(st, key)
        used_count == UsedToday(rec, t)
        rec2 == IF kind = "free"
                THEN SetItem(SetItem(rec, "effects_free_day", _today_key(t)),
                             "effects_free_used", used_count + 1)
                ELSE IF kind = "credit"
                THEN SetItem(rec, "credits", Max(0, _get_credits(rec) - 1))
                ELSE rec
    IN SetItem(st, key, rec2)

\* the store _bump_success_and_should_show_ad saves
_bump_success_and_should_show_ad(st, user_id) ==
    LET key == str(user_id)
        rec == RecordOf(st, key)
        cnt == IntField(rec, "success_count") + 1
    IN SetItem(st, key, SetItem(rec, "success_count", cnt))

\* mutant: the referred_by check is missing
AlreadyReferred_Never(st, new_user_id) == FALSE

\* new_rec.get("referred_by") is truthy
AlreadyReferred(st, new_user_id) ==
    LET new_rec == RecordOf(st, str(new_user_id))
    IN "referred_by" \in DOMAIN new_rec /\ Len(new_rec["referred_by"]) > 0

\* mutant: the referrer's record is not updated
_apply_referral_NoReferrerBonus(st, new_user_id, ref_user_id) ==
    LET new_key == str(new_user_id)
        new_rec1 == SetItem(RecordOf(st, new_key), "referred_by", str(ref_user_id))
        new_rec2 == SetItem(new_rec1, "credits", _get_credits(new_rec1) + 2)
    IN SetItem(st, new_key, new_rec2)

\* the store _apply_referral saves when the new user is not yet referred
_apply_referral(st, new_user_id, ref_user_id) ==
    LET new_key == str(new_user_id)
        ref_key == str(ref_user_id)
        new_rec1 == SetItem(RecordOf(st, new_key), "referred_by", str(ref_user_id))
        st1 == SetItem(st, new_key, new_rec1)
        ref_rec == RecordOf(st1, ref_key)
        ref_rec2 == SetItem(SetItem(ref_rec, "ref_count", IntField(ref_rec, "ref_count") + 1),
                            "credits", _get_credits(ref_rec) + 5)
        st2 == SetItem(st1, ref_key, ref_rec2)
        new_rec2 == SetItem(new_rec1, "credits", _get_credits(new_rec1) + 2)
    IN SetItem(st2, new_key, new_rec2)

----------------------------------------------------------------------------
\* Calls.  u is the (first) user id, v the integer argument (seconds,
\* amount, referrer id), kind the entitlement kind.

NoOp == [name |-> "none", u |-> 0, v |-> 0, kind |-> ""]
Kinds == {"premium", "free", "credit", "other"}

GrantOps == [name : {"grant"}, u : Users, v : (-1)..MaxSeconds, kind : {""}]
AddOps == [name : {"add"}, u : Users, v : (-1)..MaxAmount, kind : {""}]
PlanOps == [name : {"plan"}, u : Users, v : {0}, kind : {""}]
FinalizeOps == [name : {"finalize"}, u : Users, v : {0}, kind : Kinds]
BumpOps == [name : {"bump"}, u : Users, v : {0}, kind : {""}]
ReferralOps == [name : {"referral"}, u : 0..MaxUser, v : 0..MaxUser, kind : {""}]
AllOps == GrantOps \cup AddOps \cup PlanOps \cup FinalizeOps \cup BumpOps \cup ReferralOps
\* _get_user_record(user_id)
GetOps == [name : {"get"}, u : 0..MaxUser, v : {0}, kind : {""}]

\* the guards before `async with USER_STORE_LOCK`: the call returns at once
ReturnsEarly(o) ==
    \/ o.name = "grant" /\ o.v <= 0
    \/ o.name = "add" /\ o.v <= 0
    \/ o.name = "finalize" /\ o.kind \notin {"free", "credit"}
    \/ o.name = "bump" /\ AD_EVERY_SUCCESS_COUNT <= 0
    \/ o.name = "referral" /\ (o.u <= 0 \/ o.v <= 0 \/ o.u = o.v)
    \/ o.name = "get" /\ o.u <= 0

EarlyResult(o) ==
    IF o.name \in {"referral", "bump"} THEN "False"
    ELSE IF o.name = "get" THEN EmptyDict
    ELSE "None"

\* Tasks are interchangeable slots for coroutines: a new call takes the
\* lowest free slot.
Callable(t) ==
    /\ pc[t] = "idle"
    /\ \A s \in DOMAIN pc : s < t => pc[s] # "idle"

\* a coroutine is started with one of the calls in ops; it runs to its first
\* suspension
Call(t, ops) ==
    /\ Callable(t)
    /\ \E o \in ops :
        /\ op' = [op EXCEPT ![t] = o]
        /\ IF ReturnsEarly(o)
           THEN /\ pc' = [pc EXCEPT ![t] = "done"]
                /\ ret' = [ret EXCEPT ![t] = EarlyResult(o)]
           ELSE /\ pc' = [pc EXCEPT ![t] = "acquire"]
                /\ ret' = [ret EXCEPT ![t] = ""]
    /\ UNCHANGED <<store, disk, now, lock, loc>>

\* mutant: the section is entered without waiting for the lock
LockFree_NoWait(t) == TRUE

\* asyncio.Lock.acquire returns when the lock is not held
LockFree(t) == lock = 0

Acquire(t) ==
    /\ pc[t] = "acquire"
    /\ LockFree(t)
    /\ lock' = t
    /\ pc' = [pc EXCEPT ![t] = "load"]
    /\ UNCHANGED <<store, disk, now, op, loc, ret>>

\* store = await asyncio.to_thread(_load_user_store_sync); an exception
\* would leave `async with` and end the call
Load(t) ==
    /\ pc[t] = "load"
    /\ LET r == _load_user_store_sync(disk, store)
       IN IF r.raised
          THEN /\ pc' = [pc EXCEPT ![t] = "done"]
               /\ ret' = [ret EXCEPT ![t] = "raise"]
               /\ lock' = IF lock = t THEN 0 ELSE lock
               /\ UNCHANGED loc
          ELSE /\ loc' = [loc EXCEPT ![t] = r.data]
               /\ pc' = [pc EXCEPT ![t] = "body"]
               /\ UNCHANGED <<lock, ret>>
    /\ UNCHANGED <<store, disk, now, op>>

\* the section mutates the loaded store and saves it; the coroutine is then
\* suspended in the save
Save(t, st, r) ==
    /\ store' = st
    /\ disk' = "object"
    /\ ret' = [ret EXCEPT ![t] = r]
    /\ pc' = [pc EXCEPT ![t] = "release"]
    /\ UNCHANGED <<now, lock, op, loc>>

\* mutant: the section returns and the lock stays held
ReturnLocked_Keeps(t, r) ==
    /\ ret' = [ret EXCEPT ![t] = r]
    /\ pc' = [pc EXCEPT ![t] = "done"]
    /\ loc' = [loc EXCEPT ![t] = EmptyDict]
    /\ UNCHANGED <<store, disk, now, op, lock>>

\* the section returns without saving; leaving `async with` frees the lock
ReturnLocked(t, r) ==
    /\ ret' = [ret EXCEPT ![t] = r]
    /\ pc' = [pc EXCEPT ![t] = "done"]
    /\ lock' = IF lock = t THEN 0 ELSE lock
    /\ loc' = [loc EXCEPT ![t] = EmptyDict]
    /\ UNCHANGED <<store, disk, now, op>>

InBody(t, name) == pc[t] = "body" /\ op[t].name = name

GrantBody(t) ==
    /\ InBody(t, "grant")
    /\ Save(t, _grant_premium(loc[t], op[t].u, op[t].v, now), "None")

AddBody(t) ==
    /\ InBody(t, "add")
    /\ Save(t, _add_credits(loc[t], op[t].u, op[t].v), "None")

\* mutant: plan writes the record back and saves
PlanBody_Saves(t) ==
    /\ InBody(t, "plan")
    /\ Save(t, SetItem(loc[t], str(op[t].u), RecordOf(loc[t], str(op[t].u))),
            _plan_effect_entitlement(loc[t], op[t].u, now))

PlanBody(t) ==
    /\ InBody(t, "plan")
    /\ ReturnLocked(t, _plan_effect_entitlement(loc[t], op[t].u, now))

FinalizeBody(t) ==
    /\ InBody(t, "finalize")
    /\ Save(t, _finalize_effect_entitlement(loc[t], op[t].u, op[t].kind, now), "None")

BumpBody(t) ==
    /\ InBody(t, "bump")
    /\ LET st == _bump_success_and_should_show_ad(loc[t], op[t].u)
           cnt == st[str(op[t].u)]["success_count"]
       IN Save(t, st, IF cnt % AD_EVERY_SUCCESS_COUNT = 0 THEN "True" ELSE "False")

ReferralBody(t) ==
    /\ InBody(t, "referral")
    /\ IF AlreadyReferred(loc[t], op[t].u)
       THEN ReturnLocked(t, "False")
       ELSE Save(t, _apply_referral(loc[t], op[t].u, op[t].v), "True")

\* _get_user_record: _read_user_store returns the loaded store from inside
\* the lock and the record is picked from it
GetBody(t) ==
    /\ InBody(t, "get")
    /\ ReturnLocked(t, RecordOf(loc[t], str(op[t].u)))

\* the save is done; the coroutine leaves `async with` and returns
Release(t) ==
    /\ pc[t] = "release"
    /\ lock' = IF lock = t THEN 0 ELSE lock
    /\ pc' = [pc EXCEPT ![t] = "done"]
    /\ loc' = [loc EXCEPT ![t] = EmptyDict]
    /\ UNCHANGED <<store, disk, now, op, ret>>

\* the caller has taken the result; the slot is free for another call
Return(t) ==
    /\ pc[t] = "done"
    /\ pc' = [pc EXCEPT ![t] = "idle"]
    /\ op' = [op EXCEPT ![t] = NoOp]
    /\ ret' = [ret EXCEPT ![t] = ""]
    /\ UNCHANGED <<store, disk, now, lock, loc>>

\* the wall clock advances
Tick ==
    /\ now < MaxNow
    /\ now' = now + 1
    /\ UNCHANGED <<store, disk, lock, pc, op, loc, ret>>

\* no call has been made, no effects session is open; user_store.json
\* exists if something was saved
TasksInit(T) ==
    /\ user_data = EmptyDict
    /\ files = {}
    /\ disk = IF store = EmptyDict THEN "missing" ELSE "object"
    /\ tmp = NoTmp
    /\ lock = 0
    /\ pc = [t \in T |-> "idle"]
    /\ op = [t \in T |-> NoOp]
    /\ loc = [t \in T |-> EmptyDict]
    /\ ret = [t \in T |-> ""]

----------------------------------------------------------------------------
\* Readings of the persisted store.

Credits(st, u) == IntField(RecordOf(st, str(u)), "credits")
PremiumUntil(st, u) == IntField(RecordOf(st, str(u)), "premium_until")
FreeUsed(st, u) == IntField(RecordOf(st, str(u)), "effects_free_used")
RefCount(st, u) == IntField(RecordOf(st, str(u)), "ref_count")
Quiet == \A t \in DOMAIN pc : pc[t] \in {"idle", "done"}

\* C7: the credit balance of every user is >= 0 in every reachable store;
\* _add_credits with amount <= 0 changes nothing, and
\* _finalize_effect_entitlement(user, 'credit') on a balance of 0 leaves it 0,
\* also when two such calls run against one single credit.
C7_CreditsNonNegative ==
    /\ [](\A k \in DOMAIN store : IntField(store[k], "credits") >= 0)
    /\ [][\A t \in DOMAIN pc :
            /\ (pc'[t] # pc[t] /\ op'[t].name = "add" /\ op'[t].v <= 0)
                   => store' = store
            /\ (pc[t] = "body" /\ pc'[t] # "body" /\ op[t].name = "finalize"
                   /\ op[t].kind = "credit" /\ Credits(store, op[t].u) = 0)
                   => Credits(store', op[t].u) = 0]_vars

\* user 1 had a single credit and two finalize('credit') calls for user 1
\* have both completed; the balance is 0
C7_Witness ==
    /\ Credits(hist.init, 1) = 1
    /\ \A t \in DOMAIN pc :
          pc[t] = "done" /\ op[t].name = "finalize" /\ op[t].kind = "credit" /\ op[t].u = 1
    /\ Cardinality(DOMAIN pc) >= 2
    /\ Credits(store, 1) = 0

\* the step in which the call of task t mutates and saves
Saves(t, name) == pc[t] = "body" /\ op[t].name = name /\ pc'[t] = "release"

\* C8: premium_until of a user never decreases: it changes only in a
\* _grant_premium(user, s) with s > 0, which sets it to
\* max(now, previous premium_until) + s; _grant_premium with s <= 0 changes
\* nothing, and no other ledger operation changes premium_until.
C8_PremiumMonotone ==
    [][/\ \A u \in Users :
            /\ PremiumUntil(store', u) >= PremiumUntil(store, u)
            /\ PremiumUntil(store', u) # PremiumUntil(store, u) =>
                  \E t \in DOMAIN pc :
                      /\ Saves(t, "grant") /\ op[t].u = u /\ op[t].v > 0
                      /\ PremiumUntil(store', u) =
                            (IF now > PremiumUntil(store, u)
                             THEN now ELSE PremiumUntil(store, u)) + op[t].v
       /\ \A t \in DOMAIN pc :
            /\ (pc'[t] # pc[t] /\ op'[t].name = "grant" /\ op'[t].v <= 0)
                   => store' = store
            /\ (Saves(t, "grant") /\ op[t].v > 0) =>
                   PremiumUntil(store', op[t].u) =
                       (IF now > PremiumUntil(store, op[t].u)
                        THEN now ELSE PremiumUntil(store, op[t].u)) + op[t].v]_vars

\* two grants for user 1 have completed, the second extending the premium
\* of the first, which had not expired
C8_Witness ==
    \E t1, t2 \in DOMAIN pc :
        /\ t1 # t2 /\ pc[t1] = "done" /\ pc[t2] = "done"
        /\ op[t1].name = "grant" /\ op[t1].u = 1 /\ op[t1].v > 0
        /\ op[t2].name = "grant" /\ op[t2].u = 1 /\ op[t2].v > 0
        /\ PremiumUntil(store, 1) = 1 + op[t1].v + op[t2].v
        /\ now > 1

----------------------------------------------------------------------------
\* Spec: MaxTask concurrent calls of any ledger operation, from an empty
\* store (no user_store.json yet) or from the store left by one credit
\* purchase and two free uses of user 1.  hist keeps the initial store.

SeasonedStore ==
    _finalize_effect_entitlement(
        _finalize_effect_entitlement(_add_credits(EmptyDict, 1, 1), 1, "free", 1),
        1, "free", 1)

Init ==
    /\ store \in {EmptyDict, SeasonedStore}
    /\ now = 1
    /\ TasksInit(Tasks)
    /\ hist = [init |-> store]

Next ==
    \/ \E t \in Tasks : Call(t, AllOps) /\ UNCHANGED <<hist, user_data, files, tmp>>
    \/ \E t \in Tasks : Acquire(t) /\ UNCHANGED <<hist, user_data, files, tmp>>
    \/ \E t \in Tasks : Load(t) /\ UNCHANGED <<hist, user_data, files, tmp>>
    \/ \E t \in Tasks : GrantBody(t) /\ UNCHANGED <<hist, user_data, files, tmp>>
    \/ \E t \in Tasks : AddBody(t) /\ UNCHANGED <<hist, user_data, files, tmp>>
    \/ \E t \in Tasks : PlanBody(t) /\ UNCHANGED <<hist, user_data, files, tmp>>
    \/ \E t \in Tasks : FinalizeBody(t) /\ UNCHANGED <<hist, user_data, files, tmp>>
    \/ \E t \in Tasks : BumpBody(t) /\ UNCHANGED <<hist, user_data, files, tmp>>
    \/ \E t \in Tasks : ReferralBody(t) /\ UNCHANGED <<hist, user_data, files, tmp>>
    \/ \E t \in Tasks : Release(t) /\ UNCHANGED <<hist, user_data, files, tmp>>
    \/ Tick /\ UNCHANGED <<hist, user_data, files, tmp>>

Spec == Init /\ [][Next]_vars

----------------------------------------------------------------------------
\* SpecAdd: MaxAdders concurrent calls _add_credits(u, 1), the balances
\* initially 0 (no record, or a record with credits 0).

Adders == 1..MaxAdders
AddOneOps == [name : {"add"}, u : Users, v : {1}, kind : {""}]
ZeroStore == [k \in {str(u) : u \in Users} |-> SetItem(EmptyDict, "credits", 0)]

InitAdd ==
    /\ store \in {EmptyDict, ZeroStore}
    /\ now = 1
    /\ TasksInit(Adders)
    /\ hist = 0

NextAdd ==
    \/ \E t \in Adders : Call(t, AddOneOps) /\ UNCHANGED <<hist, user_data, files, tmp>>
    \/ \E t \in Adders : Acquire(t) /\ UNCHANGED <<hist, user_data, files, tmp>>
    \/ \E t \in Adders : Load(t) /\ UNCHANGED <<hist, user_data, files, tmp>>
    \/ \E t \in Adders : AddBody(t) /\ UNCHANGED <<hist, user_data, files, tmp>>
    \/ \E t \in Adders : Release(t) /\ UNCHANGED <<hist, user_data, files, tmp>>

SpecAdd == InitAdd /\ [][NextAdd]_vars

\* C2: once N concurrent _add_credits(u, 1) calls against a balance of 0 have
\* all completed, credits of u is N, whatever the interleaving of their
\* load, mutate and save steps.
C2_NoLostUpdate ==
    Quiet => \A u \in Users :
        Credits(store, u) =
            Cardinality({t \in DOMAIN pc : pc[t] = "done" /\ op[t].name = "add" /\ op[t].u = u})

\* every adder has added to user 1 and the balance is their number
C2_Witness ==
    /\ \A t \in DOMAIN pc : pc[t] = "done" /\ op[t].name = "add" /\ op[t].u = 1
    /\ Cardinality(DOMAIN pc) = MaxAdders
    /\ Credits(store, 1) = MaxAdders

----------------------------------------------------------------------------
\* SpecRef: MaxTask concurrent calls _apply_referral(new, ref) over MaxRefUser
\* users and the id 0, from a store in which nobody is referred yet.  hist
\* keeps the initial store and, per task, the store when the call started.

RefUsers == 1..MaxRefUser
RefOps == [name : {"referral"}, u : 0..MaxRefUser, v : 0..MaxRefUser, kind : {""}]
OneCreditStore == [k \in {str(u) : u \in RefUsers} |-> SetItem(EmptyDict, "credits", 1)]

InitRef ==
    /\ store \in {EmptyDict, OneCreditStore}
    /\ now = 1
    /\ TasksInit(Tasks)
    /\ hist = [init |-> store, at |-> [t \in Tasks |-> EmptyDict]]

NextRef ==
    \/ \E t \in Tasks : Call(t, RefOps) /\ hist' = [hist EXCEPT !.at[t] = store]
                            /\ UNCHANGED <<user_data, files, tmp>>
    \/ \E t \in Tasks : Acquire(t) /\ UNCHANGED <<hist, user_data, files, tmp>>
    \/ \E t \in Tasks : Load(t) /\ UNCHANGED <<hist, user_data, files, tmp>>
    \/ \E t \in Tasks : ReferralBody(t) /\ UNCHANGED <<hist, user_data, files, tmp>>
    \/ \E t \in Tasks : Release(t) /\ UNCHANGED <<hist, user_data, files, tmp>>

SpecRef == InitRef /\ [][NextRef]_vars

\* the referral calls that have saved
Applied == {t \in DOMAIN pc : pc[t] \in {"release", "done"}
                              /\ op[t].name = "referral" /\ ret[t] = "True"}
\* the completed referral calls that passed the argument guards
Valid == {t \in DOMAIN pc : pc[t] = "done" /\ op[t].name = "referral"
                            /\ ~ReturnsEarly(op[t])}
ReferredBy(st, u) ==
    LET rec == RecordOf(st, str(u))
    IN IF "referred_by" \in DOMAIN rec THEN rec["referred_by"] ELSE <<>>

\* C3: concurrent _apply_referral calls for the same not-yet-referred new
\* user never both succeed; once they have completed exactly one has
\* returned True; the new user got +2 credits once, referred_by names the
\* winner's referrer, and a user got +5 credits and ref_count + 1 exactly
\* for each successful call that names it as referrer.
C3_ReferralOnce ==
    /\ \A a \in RefUsers :
        LET won == {t \in Applied : op[t].u = a}
        IN /\ Cardinality(won) <= 1
           /\ (Quiet /\ \E t \in Valid : op[t].u = a) => Cardinality(won) = 1
           /\ \A t \in won : ReferredBy(store, a) = str(op[t].v)
           /\ won = {} => ReferredBy(store, a) = <<>>
    /\ \A x \in RefUsers :
        LET refs == Cardinality({t \in Applied : op[t].v = x})
            bonus == IF \E t \in Applied : op[t].u = x THEN 2 ELSE 0
        IN /\ Credits(store, x) = Credits(hist.init, x) + bonus + 5 * refs
           /\ RefCount(store, x) = refs

\* two calls for new user 1 with the referrers 2 and 3 overlapped (the loser
\* started while user 1 was not referred yet) and have completed
C3_Witness ==
    \E t1, t2 \in DOMAIN pc :
        /\ pc[t1] = "done" /\ pc[t2] = "done"
        /\ op[t1] = [name |-> "referral", u |-> 1, v |-> 2, kind |-> ""]
        /\ op[t2] = [name |-> "referral", u |-> 1, v |-> 3, kind |-> ""]
        /\ ret[t1] = "False" /\ ret[t2] = "True"
        /\ ReferredBy(hist.at[t1], 1) = <<>>
        /\ ReferredBy(store, 1) = str(3)
        /\ Credits(store, 3) = Credits(hist.init, 3) + 5
        /\ Credits(store, 2) = Credits(hist.init, 2)

\* the call of task t cannot apply: it names one user twice, or its new user
\* was referred already when the call started
Repeated(t, h) ==
    /\ op[t].name = "referral"
    /\ \/ op[t].u = op[t].v
       \/ op[t].u > 0 /\ ReferredBy(h.at[t], op[t].u) # <<>>

\* C6: a second _apply_referral for a new user that is referred already
\* (same or different referrer) returns False and changes no record, and so
\* does _apply_referral(a, a): no step of such a call changes the store.
C6_SecondReferralNoOp ==
    [][\A t \in DOMAIN pc :
          (pc'[t] # pc[t] /\ Repeated(t, hist)') =>
              (store' = store /\ (pc'[t] = "done" => ret'[t] = "False"))]_vars

\* user 1 was referred by 2, and a later call for user 1 with referrer 3 has
\* returned False; the credits were given once
C6_Witness ==
    \E t1, t2 \in DOMAIN pc :
        /\ pc[t1] = "done" /\ pc[t2] = "done"
        /\ op[t1] = [name |-> "referral", u |-> 1, v |-> 2, kind |-> ""]
        /\ op[t2] = [name |-> "referral", u |-> 1, v |-> 3, kind |-> ""]
        /\ ret[t1] = "True" /\ ret[t2] = "False"
        /\ ReferredBy(hist.at[t2], 1) = str(2)
        /\ Credits(store, 1) = Credits(hist.init, 1) + 2
        /\ Credits(store, 2) = Credits(hist.init, 2) + 5
        /\ Credits(store, 3) = Credits(hist.init, 3)

----------------------------------------------------------------------------
\* SpecQuota: one caller that awaits call after call for user 1 (plan,
\* finalize, add credits, grant premium) while the clock runs over several
\* UTC days.  hist counts the finalize('free') calls of the current day, by
\* the clock and not by the record.

Solo == {1}
QuotaOps ==
    {o \in PlanOps \cup FinalizeOps \cup AddOps \cup GrantOps : o.u = 1}

\* the bounds on the values the calls may build up
Within(o) ==
    /\ o.name = "add" => Credits(store, o.u) + o.v <= MaxCredits
    /\ o.name = "grant" => Max(now, PremiumUntil(store, o.u)) + o.v <= MaxUntil
    /\ (o.name = "finalize" /\ o.kind = "free") => FreeUsed(store, o.u) < MaxUsed

DayOf(t) == t \div DayLen

\* the free uses committed on the day of t
DoneToday(h, t) == IF h.day = DayOf(t) THEN h.n ELSE 0

QuotaRun(h, kind) ==
    IF kind = "free"
    THEN [day |-> DayOf(now), n |-> DoneToday(h, now) + 1]
    ELSE h

InitQuota ==
    /\ store = EmptyDict
    /\ now = 1
    /\ TasksInit(Solo)
    /\ hist = [day |-> 0, n |-> 0]

NextQuota ==
    \/ \E t \in Solo : Call(t, QuotaOps) /\ Within(op'[t]) /\ UNCHANGED <<hist, user_data, files, tmp>>
    \/ \E t \in Solo : Acquire(t) /\ UNCHANGED <<hist, user_data, files, tmp>>
    \/ \E t \in Solo : Load(t) /\ UNCHANGED <<hist, user_data, files, tmp>>
    \/ \E t \in Solo : GrantBody(t) /\ UNCHANGED <<hist, user_data, files, tmp>>
    \/ \E t \in Solo : AddBody(t) /\ UNCHANGED <<hist, user_data, files, tmp>>
    \/ \E t \in Solo : PlanBody(t) /\ UNCHANGED <<hist, user_data, files, tmp>>
    \/ \E t \in Solo : FinalizeBody(t) /\ hist' = QuotaRun(hist, op[t].kind)
                           /\ UNCHANGED <<user_data, files, tmp>>
    \/ \E t \in Solo : Release(t) /\ UNCHANGED <<hist, user_data, files, tmp>>
    \/ \E t \in Solo : Return(t) /\ UNCHANGED <<hist, user_data, files, tmp>>
    \/ Tick /\ UNCHANGED <<hist, user_data, files, tmp>>

SpecQuota == InitQuota /\ [][NextQuota]_vars

\* the step in which the plan call of task t computes its result
PlanReturns(t) == pc[t] = "body" /\ op[t].name = "plan" /\ pc'[t] # "body"

\* the result the plan contract gives for the persisted record at clock t
PlanContract(st, u, t) ==
    LET rec == RecordOf(st, str(u))
        until == IF "premium_until" \in DOMAIN rec THEN rec["premium_until"] ELSE 0
        count == IF "effects_free_day" \in DOMAIN rec /\ rec["effects_free_day"] = DayOf(t)
                 THEN (IF "effects_free_used" \in DOMAIN rec
                       THEN rec["effects_free_used"] ELSE 0)
                 ELSE 0
        credits == IF "credits" \in DOMAIN rec THEN rec["credits"] ELSE 0
    IN CASE t < until -> "premium"
         [] ~(t < until) /\ count < 2 -> "free"
         [] ~(t < until) /\ ~(count < 2) /\ credits > 0 -> "credit"
         [] OTHER -> "None"

\* C4: _plan_effect_entitlement returns 'premium' if now < premium_until,
\* otherwise 'free' if the free uses of today's UTC day (0 when the stored
\* day is another day) are below 2, otherwise 'credit' if credits > 0,
\* otherwise None, for the persisted record and the clock at the call.
C4_PlanResult ==
    [][\A t \in DOMAIN pc :
          PlanReturns(t) => ret'[t] = PlanContract(store, op[t].u, now)]_vars

\* plan has returned 'premium' although free uses and credits were available
\* too, after it had returned other kinds
C4_Witness ==
    /\ pc[1] = "done" /\ op[1].name = "plan" /\ ret[1] = "premium"
    /\ Credits(store, 1) > 0
    /\ hist.n > 0 /\ DoneToday(hist, now) < 2

\* C5: no step of a _plan_effect_entitlement call changes the persisted
\* store, whatever the call returns and however often it is repeated.
C5_PlanReadOnly ==
    [][\A t \in DOMAIN pc :
          (pc'[t] # pc[t] /\ op'[t].name = "plan") => store' = store]_vars

\* plan has returned denied (quota used up today, no credits, no premium)
C5_Witness ==
    /\ pc[1] = "done" /\ op[1].name = "plan" /\ ret[1] = "None"
    /\ DoneToday(hist, now) >= 2
    /\ Credits(store, 1) = 0

\* C10: for a user without active premium a plan call returns 'free' while
\* fewer than 2 free uses were committed on the current UTC day, and 'credit'
\* or denied once 2 were; on the next day it returns 'free' again whatever
\* the usage of the day before.
C10_DailyQuota ==
    [][\A t \in DOMAIN pc :
          (PlanReturns(t) /\ ~(now < PremiumUntil(store, op[t].u))) =>
              /\ DoneToday(hist, now) < 2 => ret'[t] = "free"
              /\ DoneToday(hist, now) >= 2 => ret'[t] \in {"credit", "None"}]_vars

\* plan has returned 'free' on a day after a day with 2 or more free uses
C10_Witness ==
    /\ pc[1] = "done" /\ op[1].name = "plan" /\ ret[1] = "free"
    /\ hist.n >= 2 /\ hist.day < DayOf(now)
    /\ FreeUsed(store, 1) >= 2
    /\ ~(now < PremiumUntil(store, 1))

----------------------------------------------------------------------------
\* SpecGrant: one caller that awaits _grant_premium call after call for
\* user 1 while the clock runs.  hist describes the current run of grants,
\* each but the first made before the premium granted so far had expired:
\* their number, the sum of their durations and the clock at the first and
\* at the last of them.

SoloGrantOps == {o \in GrantOps : o.u = 1}

InitGrant ==
    /\ store = EmptyDict
    /\ now = 1
    /\ TasksInit(Solo)
    /\ hist = [n |-> 0, sum |-> 0, first |-> 0, last |-> 0]

GrantRun(h, u, v) ==
    IF h.n > 0 /\ now < PremiumUntil(store, u)
    THEN [n |-> h.n + 1, sum |-> h.sum + v, first |-> h.first, last |-> now]
    ELSE [n |-> 1, sum |-> v, first |-> now, last |-> now]

NextGrant ==
    \/ \E t \in Solo : Call(t, SoloGrantOps) /\ Within(op'[t]) /\ UNCHANGED <<hist, user_data, files, tmp>>
    \/ \E t \in Solo : Acquire(t) /\ UNCHANGED <<hist, user_data, files, tmp>>
    \/ \E t \in Solo : Load(t) /\ UNCHANGED <<hist, user_data, files, tmp>>
    \/ \E t \in Solo : GrantBody(t) /\ hist' = GrantRun(hist, op[t].u, op[t].v)
                           /\ UNCHANGED <<user_data, files, tmp>>
    \/ \E t \in Solo : Release(t) /\ UNCHANGED <<hist, user_data, files, tmp>>
    \/ \E t \in Solo : Return(t) /\ UNCHANGED <<hist, user_data, files, tmp>>
    \/ Tick /\ UNCHANGED <<hist, user_data, files, tmp>>

SpecGrant == InitGrant /\ [][NextGrant]_vars

\* C9 as stated: after grants d1..dn, each made before the premium granted
\* so far had expired, premium_until is the clock at the last call plus
\* d1 + ... + dn.
C9_LastCallPlusSum ==
    hist.n >= 1 => PremiumUntil(store, 1) = hist.last + hist.sum

\* C9 amended: after grants d1..dn, the first made with no unexpired premium
\* and each later one before the premium granted so far had expired,
\* premium_until is the clock at the first call plus d1 + ... + dn.
C9_FirstCallPlusSum ==
    hist.n >= 1 => PremiumUntil(store, 1) = hist.first + hist.sum

\* three grants in one run, the last at a later clock value than the first
C9_Witness ==
    /\ hist.n >= 3 /\ hist.last > hist.first
    /\ PremiumUntil(store, 1) = hist.first + hist.sum
    /\ pc[1] = "done"

----------------------------------------------------------------------------
\* SpecFx: the effects flow of one user (id 1).  The application handles one
\* update at a time, so a handler runs from start to end before the next
\* one starts and every ledger call in it is awaited alone.  The outcome of
\* each external step (downloads, ffmpeg, Telegram delivery) is an input.
\* hist describes the last handler run: the handler, the message, the
\* outcomes, the entitlement kind it held, its last reply and whether it
\* invoked _finalize_effect_entitlement.

\* mutant: the key stays in the dict
Pop_Keeps(d, k) == d

\* d.pop(k, None)
Pop(d, k) == [x \in (DOMAIN d) \ {k} |-> d[x]]

\* what a call loads when no other call is in flight
Loaded == _load_user_store_sync(disk, store).data

\* the call o saves when it is awaited with no other call in flight
Writes(o, st) ==
    /\ ~ReturnsEarly(o)
    /\ o.name # "plan"
    /\ o.name = "referral" => ~AlreadyReferred(st, o.u)

\* the store after call o has been awaited with no other call in flight
Awaited(o, st, t) ==
    IF ReturnsEarly(o) THEN st
    ELSE CASE o.name = "grant" -> _grant_premium(st, o.u, o.v, t)
           [] o.name = "add" -> _add_credits(st, o.u, o.v)
           [] o.name = "finalize" -> _finalize_effect_entitlement(st, o.u, o.kind, t)
           [] o.name = "bump" -> _bump_success_and_should_show_ad(st, o.u)
           [] o.name = "referral" ->
                IF AlreadyReferred(st, o.u) THEN st ELSE _apply_referral(st, o.u, o.v)
           [] OTHER -> st

NA == "-"
Env(ref, dl, stats, filter, out, size, send, done) ==
    [ref |-> ref, dl |-> dl, stats |-> stats, filter |-> filter, out |-> out,
     size |-> size, send |-> send, done |-> done]

\* _download_reference_video_for_effects: it returns a file and stats, it
\* returns (None, None), or _extract_signalstats raises out of it
RefEnvs == {Env(r, NA, NA, NA, NA, NA, NA, NA) : r \in {"ok", "fail", "raise"}}

\* reply_video succeeds; times out once and succeeds; times out twice and
\* reply_document succeeds
Delivered == {"video", "retry", "document"}
\* reply_document raises after two timeouts; reply_video raises another error
Undelivered == {"document_fails", "error"}

\* the outcomes of the steps of handle_message for a video, up to the first
\* step that ends the handler
VideoEnvs ==
    {Env(NA, d, NA, NA, NA, NA, NA, NA) : d \in {"fail", "raise", "raise_partial"}}
    \cup {Env(NA, "ok", "raise", NA, NA, NA, NA, NA),
          Env(NA, "ok", "ok", "raise", NA, NA, NA, NA),
          Env(NA, "ok", "ok", "ok", "missing", NA, NA, NA),
          Env(NA, "ok", "ok", "ok", "exists", "big", NA, NA)}
    \cup {Env(NA, "ok", "ok", "ok", "exists", "ok", x, NA) : x \in Undelivered}
    \cup {Env(NA, "ok", "ok", "ok", "exists", "ok", x, d) :
              x \in Delivered, d \in {"ok", "raise"}}
NoEnv == Env(NA, NA, NA, NA, NA, NA, NA, NA)

Messages == {"link", "text", "video"}

Ran(handler, m, e, kind, reply, finalized) ==
    [handler |-> handler, m |-> m, e |-> e, kind |-> kind, reply |-> reply,
     finalized |-> finalized]

\* the os.remove of the file user_data names as effects_ref_file
WithoutRef(ud, fs) ==
    IF "effects_ref_file" \in DOMAIN ud THEN fs \ {ud["effects_ref_file"]} ELSE fs

\* type_callback with data = type_effects
TypeEffects(e) ==
    /\ IF "last_url" \notin DOMAIN user_data
       THEN /\ UNCHANGED <<user_data, files, tmp>>
            /\ hist' = Ran("type_callback", "no_url", NoEnv, "None", "no_url_saved", FALSE)
       ELSE LET kind == _plan_effect_entitlement(Loaded, 1, now)
                ud1 == SetItem(user_data, "effects_entitlement_kind", kind)
                files1 == WithoutRef(ud1, files)
            IN IF kind = "None"
               THEN /\ UNCHANGED <<user_data, files, tmp>>
                    /\ hist' = Ran("type_callback", "type_effects", NoEnv, kind,
                                   "premium_need_more", FALSE)
               ELSE IF e.ref = "fail"
               THEN /\ user_data' = Pop(ud1, "effects_entitlement_kind")
                    /\ files' = files1
                    /\ hist' = Ran("type_callback", "type_effects", e, kind,
                                   "error_try_again", FALSE)
               ELSE IF e.ref = "raise"
               THEN /\ user_data' = ud1
                    /\ files' = files1 \cup {"ref"}
                    /\ hist' = Ran("type_callback", "type_effects", e, kind,
                                   "effects_intro", FALSE)
               ELSE /\ user_data' =
                         SetItem(SetItem(SetItem(ud1, "effects_ref_file", "ref"),
                                         "effects_ref_stats", "stats"),
                                 "effects_waiting_video", "True")
                    /\ files' = files1 \cup {"ref"}
                    /\ hist' = Ran("type_callback", "type_effects", e, kind,
                                   "effects_ready", FALSE)
    /\ UNCHANGED <<store, disk, tmp, now, lock, pc, op, loc, ret>>

\* mutant: the entitlement is consumed on every exit of the pipeline
ShouldFinalize_Always(sent_ok) == TRUE

\* if sent_ok and update.effective_user
ShouldFinalize(sent_ok) == sent_ok

\* the try block of handle_message: whether it sets sent_ok, and its last reply
Pipeline(e) ==
    IF e.stats = "raise" \/ e.filter = "raise"
    THEN [sent_ok |-> FALSE, reply |-> "error_try_again"]
    ELSE IF e.out = "missing"
    THEN [sent_ok |-> FALSE, reply |-> "effects_processing"]
    ELSE IF e.size = "big"
    THEN [sent_ok |-> FALSE, reply |-> "too_big"]
    ELSE IF e.send \in Undelivered \/ e.done = "raise"
    THEN [sent_ok |-> FALSE, reply |-> "error_try_again"]
    ELSE [sent_ok |-> TRUE, reply |-> "effects_done"]

\* handle_message; dt is the time the handler takes up to its finally block
HandleMessage(m, e, dt) ==
    /\ now + dt <= MaxNow
    /\ IF "effects_waiting_video" \in DOMAIN user_data
       THEN LET ud1 == IF m = "link"
                       THEN Pop(Pop(Pop(Pop(user_data, "effects_waiting_video"),
                                        "effects_ref_stats"),
                                    "effects_entitlement_kind"),
                                "effects_ref_file")
                       ELSE user_data
                files1 == IF m = "link" THEN WithoutRef(user_data, files) ELSE files
                kind == IF "effects_entitlement_kind" \in DOMAIN ud1
                        THEN ud1["effects_entitlement_kind"] ELSE "None"
                closed == Pop(Pop(ud1, "effects_waiting_video"), "effects_entitlement_kind")
            IN IF "effects_ref_stats" \notin DOMAIN ud1
               THEN /\ user_data' = closed
                    /\ files' = files1
                    /\ UNCHANGED <<store, disk, now>>
                    /\ hist' = Ran("handle_message", m, NoEnv, kind, "effects_need_ref", FALSE)
               ELSE IF m # "video"
               THEN /\ UNCHANGED <<user_data, files, store, disk, now>>
                    /\ hist' = Ran("handle_message", m, NoEnv, kind, "effects_ready", FALSE)
               ELSE IF e.dl # "ok"
               THEN /\ UNCHANGED <<user_data, store, disk, now>>
                    /\ files' = IF e.dl = "raise_partial" THEN files \cup {"user"} ELSE files
                    /\ hist' = Ran("handle_message", m, e, kind, "error_try_again", FALSE)
               ELSE LET r == Pipeline(e)
                        fin == ShouldFinalize(r.sent_ok)
                        o == [name |-> "finalize", u |-> 1, v |-> 0, kind |-> kind]
                    IN /\ user_data' = closed
                       /\ now' = now + dt
                       /\ store' = IF fin THEN Awaited(o, Loaded, now') ELSE store
                       /\ disk' = IF fin /\ Writes(o, Loaded) THEN "object" ELSE disk
                       /\ files' = files \ {"user", "out"}
                       /\ hist' = Ran("handle_message", m, e, kind, r.reply, fin)
       ELSE /\ user_data' = IF m = "link"
                            THEN SetItem(user_data, "last_url", "url") ELSE user_data
            /\ UNCHANGED <<files, store, disk, now>>
            /\ hist' = Ran("handle_message", m, NoEnv, "None",
                           IF m = "link" THEN "choose_type" ELSE "prompt_send_link", FALSE)
    /\ UNCHANGED <<tmp, lock, pc, op, loc, ret>>

Products == {"premium_30d", "credits_10"}

\* successful_payment_handler for a payload of the user's own invoice
Payment(product) ==
    /\ LET o == IF product = "premium_30d"
                THEN [name |-> "grant", u |-> 1, v |-> PremiumSeconds, kind |-> ""]
                ELSE [name |-> "add", u |-> 1, v |-> 10, kind |-> ""]
       IN /\ o.name = "grant" => Max(now, PremiumUntil(store, 1)) + o.v <= MaxUntil
          /\ o.name = "add" => Credits(store, 1) = 0
          /\ store' = Awaited(o, Loaded, now)
          /\ disk' = IF Writes(o, Loaded) THEN "object" ELSE disk
    /\ hist' = Ran("successful_payment_handler", product, NoEnv, "None", "", FALSE)
    /\ UNCHANGED <<now, lock, pc, op, loc, ret, user_data, files, tmp>>

InitFx ==
    /\ store = EmptyDict
    /\ now = 1
    /\ TasksInit(Solo)
    /\ hist = Ran("", "", NoEnv, "None", "", FALSE)

NextFx ==
    \/ \E e \in RefEnvs : TypeEffects(e)
    \/ \E m \in Messages \ {"video"} : HandleMessage(m, NoEnv, 0)
    \/ \E e \in VideoEnvs, dt \in {0, 1} : HandleMessage("video", e, dt)
    \/ \E product \in Products : Payment(product)
    \/ Tick /\ UNCHANGED <<hist, user_data, files, tmp>>

SpecFx == InitFx /\ [][NextFx]_vars

\* the run h is one the entitlement must not be consumed for: the reference
\* download, the user-video download, stats extraction, the filter or the
\* output check failed, the output was too large, or the user sent a link or
\* a text instead of a video
FailedOrAbandoned(h) ==
    \/ h.handler = "type_callback"
    \/ /\ h.handler = "handle_message"
       /\ \/ h.m # "video"
          \/ h.e.dl # "ok"
          \/ h.e.stats # "ok"
          \/ h.e.filter # "ok"
          \/ h.e.out # "exists"
          \/ h.e.size # "ok"

\* C1: _finalize_effect_entitlement is invoked only by a handler run in which
\* the gated work succeeded, and every handler run of the effects flow that
\* failed or was abandoned leaves the ledger as it found it.
C1_NoChargeWithoutSuccess ==
    /\ [](hist.finalized => ~FailedOrAbandoned(hist))
    /\ [][FailedOrAbandoned(hist') => store' = store]_vars

\* a session that held a 'credit' entitlement ended with an output that was
\* too large; the credits are all there
C1_Witness ==
    /\ hist.handler = "handle_message" /\ hist.m = "video"
    /\ hist.e.size = "big"
    /\ hist.kind = "credit"
    /\ Credits(store, 1) = 10
    /\ "effects_waiting_video" \notin DOMAIN user_data

----------------------------------------------------------------------------
\* The per-kind reference of _finalize_effect_entitlement, under Spec.

\* the stored effects_free_day of user u, -1 when the record has none
FreeDay(st, u) ==
    LET rec == RecordOf(st, str(u))
    IN IF "effects_free_day" \in DOMAIN rec THEN rec["effects_free_day"] ELSE -1

\* C11: _finalize_effect_entitlement with kind 'premium' or a kind outside
\* premium/free/credit leaves the store unchanged; with kind 'free' it sets
\* effects_free_day to today's UTC key and effects_free_used to (the previous
\* count if the stored day is today, else 0) + 1; with kind 'credit' it sets
\* credits to max(0, credits - 1) and leaves effects_free_day and
\* effects_free_used as they were.
C11_FinalizeReference ==
    [][\A t \in DOMAIN pc :
          /\ (pc'[t] # pc[t] /\ op'[t].name = "finalize"
                  /\ op'[t].kind \notin {"free", "credit"}) => store' = store
          /\ (Saves(t, "finalize") /\ op[t].kind = "free") =>
                /\ FreeDay(store', op[t].u) = DayOf(now)
                /\ FreeUsed(store', op[t].u) =
                      (IF FreeDay(store, op[t].u) = DayOf(now)
                       THEN FreeUsed(store, op[t].u) ELSE 0) + 1
          /\ (Saves(t, "finalize") /\ op[t].kind = "credit") =>
                /\ Credits(store', op[t].u) =
                      (IF Credits(store, op[t].u) - 1 > 0
                       THEN Credits(store, op[t].u) - 1 ELSE 0)
                /\ FreeDay(store', op[t].u) = FreeDay(store, op[t].u)
                /\ FreeUsed(store', op[t].u) = FreeUsed(store, op[t].u)]_vars

\* user 1 had 2 free uses on day 0; a finalize('free') on a later day has
\* completed and the count is 1 for that day
C11_Witness ==
    /\ FreeUsed(hist.init, 1) = 2 /\ FreeDay(hist.init, 1) = 0
    /\ \E t \in DOMAIN pc :
          /\ pc[t] = "done" /\ op[t].name = "finalize"
          /\ op[t].kind = "free" /\ op[t].u = 1
    /\ FreeDay(store, 1) = DayOf(now) /\ DayOf(now) >= 1
    /\ FreeUsed(store, 1) = 1

----------------------------------------------------------------------------
\* SpecCredit: one caller that awaits plan, finalize and _add_credits calls
\* for user 1, who starts with one credit and today's free quota used up.
\* hist follows the scenario through the completed calls: stage 1 after a
\* plan made with one credit, no premium and no free use left (with its
\* result and UTC day), stage 2 when the next call is a finalize('credit')
\* (with the balance it left), stage 3 when the call after that is a plan on
\* the same day (with its result); any other call starts over.

CreditOps == {o \in QuotaOps : o.name # "grant"}

\* user u has no premium and no free use left at clock t
Exhausted(st, u, t) ==
    /\ ~(t < PremiumUntil(st, u))
    /\ FreeDay(st, u) = DayOf(t)
    /\ FreeUsed(st, u) >= 2

NoScenario == [stage |-> 0, day |-> 0, first |-> "", has |-> 0, last |-> ""]

\* the scenario after this step, in which the call of task t may complete
Scenario(h, t) ==
    IF ~(pc'[t] = "done" /\ pc[t] # "done") THEN h
    ELSE IF h.stage = 1 /\ op'[t].name = "finalize" /\ op'[t].kind = "credit"
    THEN [h EXCEPT !.stage = 2, !.has = Credits(store', op'[t].u)]
    ELSE IF h.stage = 2 /\ op'[t].name = "plan" /\ DayOf(now) = h.day
    THEN [h EXCEPT !.stage = 3, !.last = ret'[t]]
    ELSE IF /\ op'[t].name = "plan" /\ Credits(store, op'[t].u) = 1
            /\ Exhausted(store, op'[t].u, now)
    THEN [stage |-> 1, day |-> DayOf(now), first |-> ret'[t], has |-> 0, last |-> ""]
    ELSE NoScenario

InitCredit ==
    /\ store = SeasonedStore
    /\ now = 1
    /\ TasksInit(Solo)
    /\ hist = NoScenario

NextCredit ==
    \/ \E t \in Solo : Call(t, CreditOps) /\ Within(op'[t]) /\ hist' = Scenario(hist, t)
                           /\ UNCHANGED <<user_data, files, tmp>>
    \/ \E t \in Solo : Acquire(t) /\ UNCHANGED <<hist, user_data, files, tmp>>
    \/ \E t \in Solo : Load(t) /\ UNCHANGED <<hist, user_data, files, tmp>>
    \/ \E t \in Solo : AddBody(t) /\ UNCHANGED <<hist, user_data, files, tmp>>
    \/ \E t \in Solo : PlanBody(t) /\ hist' = Scenario(hist, t)
                           /\ UNCHANGED <<user_data, files, tmp>>
    \/ \E t \in Solo : FinalizeBody(t) /\ UNCHANGED <<hist, user_data, files, tmp>>
    \/ \E t \in Solo : Release(t) /\ hist' = Scenario(hist, t)
                           /\ UNCHANGED <<user_data, files, tmp>>
    \/ \E t \in Solo : Return(t) /\ UNCHANGED <<hist, user_data, files, tmp>>
    \/ Tick /\ UNCHANGED <<hist, user_data, files, tmp>>

SpecCredit == InitCredit /\ [][NextCredit]_vars

\* C12: for a user without premium whose free quota of the day is used up
\* and who has 1 credit, plan returns 'credit', the finalize('credit') that
\* follows leaves 0 credits, and the plan that follows on the same day
\* returns denied (None).
C12_CreditExhaustion ==
    /\ hist.stage >= 1 => hist.first = "credit"
    /\ hist.stage >= 2 => hist.has = 0
    /\ hist.stage >= 3 => hist.last = "None"

\* the three calls have been made and the last plan was denied
C12_Witness ==
    /\ hist.stage = 3
    /\ hist.last = "None"
    /\ Credits(store, 1) = 0

----------------------------------------------------------------------------
\* The contract of _apply_referral, under SpecRef.

\* C13: _apply_referral(new, ref) with both ids positive and different and
\* a new user without referred_by returns True and saves one snapshot in
\* which new.referred_by is ref, ref.ref_count is 1 more, ref.credits is 5
\* more and new.credits is 2 more; when an id is not positive, the ids are
\* equal or the new user has referred_by, it returns False and the store is
\* unchanged.
C13_ReferralContract ==
    [][\A t \in DOMAIN pc :
          /\ (/\ pc[t] = "idle" /\ pc'[t] # "idle" /\ op'[t].name = "referral"
              /\ (op'[t].u <= 0 \/ op'[t].v <= 0 \/ op'[t].u = op'[t].v)) =>
                (store' = store /\ pc'[t] = "done" /\ ret'[t] = "False")
          /\ (pc[t] = "body" /\ pc'[t] # "body" /\ op[t].name = "referral") =>
                IF ReferredBy(store, op[t].u) # <<>>
                THEN store' = store /\ ret'[t] = "False"
                ELSE /\ ret'[t] = "True"
                     /\ ReferredBy(store', op[t].u) = str(op[t].v)
                     /\ RefCount(store', op[t].v) = RefCount(store, op[t].v) + 1
                     /\ Credits(store', op[t].v) = Credits(store, op[t].v) + 5
                     /\ Credits(store', op[t].u) = Credits(store, op[t].u) + 2]_vars

\* _apply_referral(2, 1) has returned True on a store in which both users
\* had one credit
C13_Witness ==
    /\ Credits(hist.init, 1) = 1 /\ Credits(hist.init, 2) = 1
    /\ \E t \in DOMAIN pc :
          /\ pc[t] = "done" /\ ret[t] = "True"
          /\ op[t] = [name |-> "referral", u |-> 2, v |-> 1, kind |-> ""]
    /\ ReferredBy(store, 2) = str(1)
    /\ RefCount(store, 1) = 1
    /\ Credits(store, 1) = 6 /\ Credits(store, 2) = 3

----------------------------------------------------------------------------
\* SpecLedger: MaxTask concurrent calls of any ledger operation or of
\* _get_user_record, the referrals over MaxRefUser users, from an empty
\* store or from the store left by _apply_referral(1, 2).  hist keeps the
\* initial store.

LedgerOps == AllOps \cup RefOps \cup GetOps
ReferredStore == _apply_referral(EmptyDict, 1, 2)

InitLedger ==
    /\ store \in {EmptyDict, ReferredStore}
    /\ now = 1
    /\ TasksInit(Tasks)
    /\ hist = [init |-> store]

NextLedger ==
    \/ \E t \in Tasks : Call(t, LedgerOps) /\ UNCHANGED <<hist, user_data, files, tmp>>
    \/ \E t \in Tasks : Acquire(t) /\ UNCHANGED <<hist, user_data, files, tmp>>
    \/ \E t \in Tasks : Load(t) /\ UNCHANGED <<hist, user_data, files, tmp>>
    \/ \E t \in Tasks : GetBody(t) /\ UNCHANGED <<hist, user_data, files, tmp>>
    \/ \E t \in Tasks : GrantBody(t) /\ UNCHANGED <<hist, user_data, files, tmp>>
    \/ \E t \in Tasks : AddBody(t) /\ UNCHANGED <<hist, user_data, files, tmp>>
    \/ \E t \in Tasks : PlanBody(t) /\ UNCHANGED <<hist, user_data, files, tmp>>
    \/ \E t \in Tasks : FinalizeBody(t) /\ UNCHANGED <<hist, user_data, files, tmp>>
    \/ \E t \in Tasks : BumpBody(t) /\ UNCHANGED <<hist, user_data, files, tmp>>
    \/ \E t \in Tasks : ReferralBody(t) /\ UNCHANGED <<hist, user_data, files, tmp>>
    \/ \E t \in Tasks : Release(t) /\ UNCHANGED <<hist, user_data, files, tmp>>
    \/ Tick /\ UNCHANGED <<hist, user_data, files, tmp>>

SpecLedger == InitLedger /\ [][NextLedger]_vars

\* C14: once referred_by of a user is set, no step of a referral, grant,
\* credit, finalize or ad-bump call changes or clears it.
C14_ReferredByWriteOnce ==
    [][\A u \in RefUsers :
          ReferredBy(store, u) # <<>> => ReferredBy(store', u) = ReferredBy(store, u)]_vars

\* user 1 was referred by 2; a referral of user 1 by 3 and another call that
\* saved the record of user 1 have completed, and referred_by still names 2
C14_Witness ==
    /\ ReferredBy(hist.init, 1) = str(2)
    /\ \E t1, t2 \in DOMAIN pc :
          /\ pc[t1] = "done" /\ pc[t2] = "done"
          /\ op[t1] = [name |-> "referral", u |-> 1, v |-> 3, kind |-> ""]
          /\ op[t2].name \in {"grant", "add", "finalize", "bump"}
          /\ op[t2].u = 1 /\ ~ReturnsEarly(op[t2])
    /\ store # hist.init
    /\ ReferredBy(store, 1) = str(2)

\* the tasks between the load and the end of the save of their section
InSection == {t \in DOMAIN pc : pc[t] \in {"load", "body", "release"}}

\* C17: at most one call at a time is inside a load/mutate/save section and
\* it holds USER_STORE_LOCK from before its load until after its save; the
\* store file is loaded and saved only by the call that holds the lock.
C17_MutualExclusion ==
    /\ [](Cardinality(InSection) <= 1 /\ \A t \in InSection : lock = t)
    /\ [][/\ \A t \in DOMAIN pc :
                (pc[t] = "load" /\ pc'[t] # "load") => lock = t
          /\ (store' # store \/ disk' # disk) =>
                \E t \in DOMAIN pc : lock = t /\ pc[t] = "body" /\ pc'[t] = "release"]_vars

\* a call has saved and still holds the lock while another call, started
\* meanwhile, waits for it
C17_Witness ==
    \E t1, t2 \in DOMAIN pc :
        /\ pc[t1] = "release" /\ lock = t1
        /\ pc[t2] = "acquire"
        /\ store # hist.init

\* the fields in which the records r1 and r2 differ
ChangedFields(r1, r2) ==
    {f \in (DOMAIN r1) \cup (DOMAIN r2) :
        f \notin DOMAIN r1 \/ f \notin DOMAIN r2 \/ r1[f] # r2[f]}

\* the fields call o may write in the record under key k
FieldGroup(o, k) ==
    IF o.name = "referral"
    THEN (IF k = str(o.u) THEN {"referred_by", "credits"} ELSE {})
         \cup (IF k = str(o.v) THEN {"ref_count", "credits"} ELSE {})
    ELSE IF k # str(o.u) THEN {}
    ELSE IF o.name = "grant" THEN {"premium_until"}
    ELSE IF o.name = "add" THEN {"credits"}
    ELSE IF o.name = "finalize" /\ o.kind = "free"
    THEN {"effects_free_day", "effects_free_used"}
    ELSE IF o.name = "finalize" /\ o.kind = "credit" THEN {"credits"}
    ELSE IF o.name = "bump" THEN {"success_count"}
    ELSE {}

\* C18: a step that changes the store is the save of one ledger mutation;
\* it changes only the record of the call's user (for a referral, of the new
\* user and of the referrer) and in it only the fields of the operation;
\* every other record is in the store after the step exactly as before.
C18_Frame ==
    [][store' # store =>
          \E t \in DOMAIN pc :
              /\ pc[t] = "body" /\ pc'[t] = "release"
              /\ \A k \in (DOMAIN store) \cup (DOMAIN store') :
                    /\ ChangedFields(RecordOf(store, k), RecordOf(store', k))
                          \subseteq FieldGroup(op[t], k)
                    /\ FieldGroup(op[t], k) = {} =>
                          (k \in DOMAIN store <=> k \in DOMAIN store')]_vars

\* the records of users 1 and 2 were left by a referral; two calls that
\* overlapped, a credit purchase for user 1 and a grant for user 2, have
\* completed, and each record holds its own change and all it held before
C18_Witness ==
    /\ hist.init = ReferredStore
    /\ \E t1, t2 \in DOMAIN pc :
          /\ pc[t1] = "done" /\ pc[t2] = "done"
          /\ op[t1].name = "add" /\ op[t1].u = 1 /\ op[t1].v > 0
          /\ op[t2].name = "grant" /\ op[t2].u = 2 /\ op[t2].v > 0
          /\ Credits(store, 1) = Credits(hist.init, 1) + op[t1].v
          /\ PremiumUntil(store, 2) > 0
    /\ ReferredBy(store, 1) = str(2)
    /\ RefCount(store, 2) = 1 /\ Credits(store, 2) = 5

----------------------------------------------------------------------------
\* SpecBump: MaxBumpers concurrent calls _bump_success_and_should_show_ad(1),
\* the count initially 0 (no record, or a record with success_count 0).

Bumpers == 1..MaxBumpers
BumpOneOps == {o \in BumpOps : o.u = 1}
NoSuccessStore == SetItem(EmptyDict, str(1), SetItem(EmptyDict, "success_count", 0))

InitBump ==
    /\ store \in {EmptyDict, NoSuccessStore}
    /\ now = 1
    /\ TasksInit(Bumpers)
    /\ hist = 0

NextBump ==
    \/ \E t \in Bumpers : Call(t, BumpOneOps) /\ UNCHANGED <<hist, user_data, files, tmp>>
    \/ \E t \in Bumpers : Acquire(t) /\ UNCHANGED <<hist, user_data, files, tmp>>
    \/ \E t \in Bumpers : Load(t) /\ UNCHANGED <<hist, user_data, files, tmp>>
    \/ \E t \in Bumpers : BumpBody(t) /\ UNCHANGED <<hist, user_data, files, tmp>>
    \/ \E t \in Bumpers : Release(t) /\ UNCHANGED <<hist, user_data, files, tmp>>

SpecBump == InitBump /\ [][NextBump]_vars

SuccessCount(st, u) == IntField(RecordOf(st, str(u)), "success_count")

\* the bump calls that have saved
Bumped == {t \in DOMAIN pc : pc[t] \in {"release", "done"} /\ op[t].name = "bump"}

\* C15: a bump adds exactly 1 to success_count and returns True iff the new
\* count is a multiple of 5; with concurrent bumps of one user from count 0
\* the count is the number of bumps that have saved and the number of them
\* that returned True is that number divided by 5, rounded down, so after N
\* calls the count is N and floor(N/5) calls returned True.
C15_BumpCadence ==
    /\ [](/\ SuccessCount(store, 1) = Cardinality(Bumped)
          /\ Cardinality({t \in Bumped : ret[t] = "True"}) = Cardinality(Bumped) \div 5)
    /\ [][\A t \in DOMAIN pc :
            Saves(t, "bump") =>
                /\ SuccessCount(store', op[t].u) = SuccessCount(store, op[t].u) + 1
                /\ ret'[t] = "True" <=> SuccessCount(store', op[t].u) % 5 = 0]_vars

\* five bumps have completed: the count is 5 and one of them returned True
C15_Witness ==
    /\ Cardinality({t \in DOMAIN pc : pc[t] = "done" /\ op[t].name = "bump"}) >= 5
    /\ Quiet
    /\ SuccessCount(store, 1) = Cardinality(DOMAIN pc)
    /\ Cardinality({t \in DOMAIN pc : ret[t] = "True"}) = 1

----------------------------------------------------------------------------
\* SpecAd: _maybe_send_ad_after_success for user 1 running concurrently with
\* _grant_premium(1, seconds).  A task is either a grant or the ad flow: the
\* flow awaits _get_user_record, tests _is_premium_now on the record, awaits
\* the bump and sends the sponsored message if the bump returned True.  The
\* count starts at 4, so that the next bump hits the cadence, or at 0.
\* hist keeps, per task, whether the premium of the user was active in the
\* store when the flow's bump was taken and whether the ad was sent.

AdOps == {o \in GetOps \cup GrantOps : o.u = 1 /\ ~ReturnsEarly(o)}

AdDueStore ==
    _bump_success_and_should_show_ad(
        _bump_success_and_should_show_ad(
            _bump_success_and_should_show_ad(
                _bump_success_and_should_show_ad(EmptyDict, 1), 1), 1), 1)

InitAd ==
    /\ store \in {EmptyDict, AdDueStore}
    /\ now = 1
    /\ TasksInit(Tasks)
    /\ hist = [t \in Tasks |-> [premium |-> FALSE, sent |-> FALSE]]

\* rec = await _get_user_record(user_id) has returned:
\* if _is_premium_now(rec): return; else the bump is called
AdCheck(t) ==
    /\ pc[t] = "done" /\ op[t].name = "get"
    /\ IF _is_premium_now(ret[t], now)
       THEN /\ pc' = [pc EXCEPT ![t] = "end"]
            /\ UNCHANGED <<op, ret>>
       ELSE /\ op' = [op EXCEPT ![t] = [name |-> "bump", u |-> op[t].u, v |-> 0, kind |-> ""]]
            /\ pc' = [pc EXCEPT ![t] = "acquire"]
            /\ ret' = [ret EXCEPT ![t] = ""]
    /\ UNCHANGED <<store, disk, now, lock, loc>>

\* should = await _bump_success_and_should_show_ad(user_id) has returned:
\* the sponsored message is sent if should
AdSend(t) ==
    /\ pc[t] = "done" /\ op[t].name = "bump"
    /\ pc' = [pc EXCEPT ![t] = "end"]
    /\ hist' = [hist EXCEPT ![t].sent = (ret[t] = "True")]
    /\ UNCHANGED <<store, disk, now, lock, op, loc, ret>>

NextAd ==
    \/ \E t \in Tasks : Call(t, AdOps) /\ UNCHANGED <<hist, user_data, files, tmp>>
    \/ \E t \in Tasks : Acquire(t) /\ UNCHANGED <<hist, user_data, files, tmp>>
    \/ \E t \in Tasks : Load(t) /\ UNCHANGED <<hist, user_data, files, tmp>>
    \/ \E t \in Tasks : GetBody(t) /\ UNCHANGED <<hist, user_data, files, tmp>>
    \/ \E t \in Tasks : AdCheck(t) /\ UNCHANGED <<hist, user_data, files, tmp>>
    \/ \E t \in Tasks : BumpBody(t)
                            /\ hist' = [hist EXCEPT ![t].premium = now < PremiumUntil(store, op[t].u)]
                            /\ UNCHANGED <<user_data, files, tmp>>
    \/ \E t \in Tasks : AdSend(t) /\ UNCHANGED <<user_data, files, tmp>>
    \/ \E t \in Tasks : GrantBody(t) /\ UNCHANGED <<hist, user_data, files, tmp>>
    \/ \E t \in Tasks : Release(t) /\ UNCHANGED <<hist, user_data, files, tmp>>
    \/ Tick /\ UNCHANGED <<hist, user_data, files, tmp>>

SpecAd == InitAd /\ [][NextAd]_vars

----------------------------------------------------------------------------
\* SpecSave: one caller that awaits _add_credits and finalize calls for
\* user 1 at one clock value, with
\* _save_user_store_sync taken step by step: write_text opens (and
\* truncates) its file, writes a part of the JSON text, writes the rest and
\* closes; os.replace renames.  Any of these steps may raise instead, and
\* the process may die at any point and be started again; the files stay as
\* they are.  hist keeps what USER_STORE_PATH held when the current save
\* began and the snapshot given to the save.

SavingOps ==
    {o \in AddOps \cup FinalizeOps : o.u = 1 /\ ~ReturnsEarly(o)}

\* mutant: write_text is given USER_STORE_PATH itself
SaveTarget_InPlace == "path"

\* tmp = USER_STORE_PATH.with_suffix(".tmp"); tmp.write_text(...)
SaveTarget == "tmp"

\* the section has mutated the loaded store and calls _save_user_store_sync
Mutate(t) ==
    /\ pc[t] = "body" /\ Writes(op[t], loc[t])
    /\ loc' = [loc EXCEPT ![t] = Awaited(op[t], loc[t], now)]
    /\ pc' = [pc EXCEPT ![t] = "write"]
    /\ UNCHANGED <<store, disk, tmp, now, lock, op, ret>>

\* the file write_text writes to gets the content c (empty, partial or
\* complete JSON text of d)
Written(c, d) ==
    IF SaveTarget = "tmp"
    THEN /\ tmp' = [state |-> c, data |-> d]
         /\ UNCHANGED <<store, disk>>
    ELSE /\ disk' = (IF c = "empty" THEN "empty"
                     ELSE IF c = "partial" THEN "invalid" ELSE "object")
         /\ store' = d
         /\ UNCHANGED tmp

\* open(tmp, "w")
WriteOpen(t) ==
    /\ pc[t] = "write"
    /\ Written("empty", EmptyDict)
    /\ pc' = [pc EXCEPT ![t] = "opened"]
    /\ UNCHANGED <<now, lock, op, loc, ret>>

\* a first part of the text reaches the file
WritePart(t) ==
    /\ pc[t] = "opened"
    /\ Written("partial", EmptyDict)
    /\ pc' = [pc EXCEPT ![t] = "part"]
    /\ UNCHANGED <<now, lock, op, loc, ret>>

\* the rest of the text reaches the file and write_text returns
WriteRest(t) ==
    /\ pc[t] = "part"
    /\ Written("complete", loc[t])
    /\ pc' = [pc EXCEPT ![t] = "replace"]
    /\ UNCHANGED <<now, lock, op, loc, ret>>

\* os.replace(tmp, USER_STORE_PATH)
Replace(t) ==
    /\ pc[t] = "replace"
    /\ IF SaveTarget = "tmp"
       THEN /\ disk' = (IF tmp.state = "empty" THEN "empty"
                        ELSE IF tmp.state = "partial" THEN "invalid" ELSE "object")
            /\ store' = tmp.data
            /\ tmp' = NoTmp
       ELSE UNCHANGED <<store, disk, tmp>>
    /\ pc' = [pc EXCEPT ![t] = "release"]
    /\ ret' = [ret EXCEPT ![t] = "None"]
    /\ UNCHANGED <<now, lock, op, loc>>

\* write_text or os.replace raises (OSError); the exception leaves
\* `async with` and the call
WriteError(t) ==
    /\ pc[t] \in {"write", "opened", "part", "replace"}
    /\ pc' = [pc EXCEPT ![t] = "done"]
    /\ ret' = [ret EXCEPT ![t] = "raise"]
    /\ lock' = IF lock = t THEN 0 ELSE lock
    /\ loc' = [loc EXCEPT ![t] = EmptyDict]
    /\ UNCHANGED <<store, disk, tmp, now, op>>

\* the process dies and is started again: no call, a new lock, the same files
Crash ==
    /\ \E t \in DOMAIN pc : pc[t] # "idle"
    /\ pc' = [t \in DOMAIN pc |-> "idle"]
    /\ op' = [t \in DOMAIN pc |-> NoOp]
    /\ loc' = [t \in DOMAIN pc |-> EmptyDict]
    /\ ret' = [t \in DOMAIN pc |-> ""]
    /\ lock' = 0
    /\ UNCHANGED <<store, disk, tmp, now>>

InitSave ==
    /\ store \in {EmptyDict, SeasonedStore}
    /\ now = 1
    /\ TasksInit(Solo)
    /\ hist = [prev |-> [disk |-> disk, store |-> store], new |-> store]

NextSave ==
    \/ \E t \in Solo : Call(t, SavingOps) /\ Within(op'[t])
                           /\ UNCHANGED <<hist, user_data, files, tmp>>
    \/ \E t \in Solo : Acquire(t) /\ UNCHANGED <<hist, user_data, files, tmp>>
    \/ \E t \in Solo : Load(t) /\ UNCHANGED <<hist, user_data, files, tmp>>
    \/ \E t \in Solo : Mutate(t)
                           /\ hist' = [prev |-> [disk |-> disk, store |-> store],
                                       new |-> loc'[t]]
                           /\ UNCHANGED <<user_data, files>>
    \/ \E t \in Solo : WriteOpen(t) /\ UNCHANGED <<hist, user_data, files>>
    \/ \E t \in Solo : WritePart(t) /\ UNCHANGED <<hist, user_data, files>>
    \/ \E t \in Solo : WriteRest(t) /\ UNCHANGED <<hist, user_data, files>>
    \/ \E t \in Solo : Replace(t) /\ UNCHANGED <<hist, user_data, files>>
    \/ \E t \in Solo : WriteError(t) /\ UNCHANGED <<hist, user_data, files>>
    \/ \E t \in Solo : Release(t) /\ UNCHANGED <<hist, user_data, files, tmp>>
    \/ \E t \in Solo : Return(t) /\ UNCHANGED <<hist, user_data, files, tmp>>
    \/ Crash /\ UNCHANGED <<hist, user_data, files>>

SpecSave == InitSave /\ [][NextSave]_vars

\* C19: at every point of a save, and after a crash or a write error at any
\* of its steps, USER_STORE_PATH holds the complete snapshot it held when the
\* save began or the complete snapshot given to the save, never an empty or
\* partial text.
C19_AtomicReplace ==
    /\ disk \in {"missing", "object"}
    /\ \/ disk = hist.prev.disk /\ store = hist.prev.store
       \/ disk = "object" /\ store = hist.new

\* the process died while write_text had written a part of a new snapshot:
\* user_store.tmp is partial and user_store.json is the snapshot before
C19_Witness ==
    /\ tmp.state = "partial"
    /\ \A t \in DOMAIN pc : pc[t] = "idle"
    /\ disk = "object"
    /\ store = hist.prev.store /\ store # hist.new
    /\ Credits(store, 1) >= 1

----------------------------------------------------------------------------
\* SpecLoad: MaxTask concurrent calls for user 1 of any ledger operation or
\* of _get_user_record, started with USER_STORE_PATH in any condition:
\* missing, unreadable, empty, not JSON, JSON that is not an object, or an
\* object.  hist keeps the initial condition.

Conditions == {"missing", "unreadable", "empty", "invalid", "not_object", "object"}
LoadOps == {o \in AllOps \cup GetOps : o.u = 1}

InitLoad ==
    /\ disk \in Conditions
    /\ store \in (IF disk = "object" THEN {EmptyDict, SeasonedStore} ELSE {EmptyDict})
    /\ now = 1
    /\ user_data = EmptyDict
    /\ files = {}
    /\ tmp = NoTmp
    /\ lock = 0
    /\ pc = [t \in Tasks |-> "idle"]
    /\ op = [t \in Tasks |-> NoOp]
    /\ loc = [t \in Tasks |-> EmptyDict]
    /\ ret = [t \in Tasks |-> ""]
    /\ hist = [disk |-> disk]

NextLoad ==
    \/ \E t \in Tasks : Call(t, LoadOps) /\ UNCHANGED <<hist, user_data, files, tmp>>
    \/ \E t \in Tasks : Acquire(t) /\ UNCHANGED <<hist, user_data, files, tmp>>
    \/ \E t \in Tasks : Load(t) /\ UNCHANGED <<hist, user_data, files, tmp>>
    \/ \E t \in Tasks : GetBody(t) /\ UNCHANGED <<hist, user_data, files, tmp>>
    \/ \E t \in Tasks : GrantBody(t) /\ UNCHANGED <<hist, user_data, files, tmp>>
    \/ \E t \in Tasks : AddBody(t) /\ UNCHANGED <<hist, user_data, files, tmp>>
    \/ \E t \in Tasks : PlanBody(t) /\ UNCHANGED <<hist, user_data, files, tmp>>
    \/ \E t \in Tasks : FinalizeBody(t) /\ UNCHANGED <<hist, user_data, files, tmp>>
    \/ \E t \in Tasks : BumpBody(t) /\ UNCHANGED <<hist, user_data, files, tmp>>
    \/ \E t \in Tasks : ReferralBody(t) /\ UNCHANGED <<hist, user_data, files, tmp>>
    \/ \E t \in Tasks : Release(t) /\ UNCHANGED <<hist, user_data, files, tmp>>
    \/ Tick /\ UNCHANGED <<hist, user_data, files, tmp>>

SpecLoad == InitLoad /\ [][NextLoad]_vars

\* the step in which the call of task t leaves its locked section's body
LeavesBody(t) == pc[t] = "body" /\ pc'[t] # "body"

\* C20: _load_user_store_sync never raises and returns {} when the file is
\* missing, unreadable, empty, not valid JSON, or JSON that is not an
\* object; the operation that loaded then acts as on an empty store: it
\* saves what it saves for a user without record, plan returns 'free' and
\* _get_user_record returns {}.
C20_LoadTolerant ==
    [][\A t \in DOMAIN pc :
          /\ (pc[t] = "load" /\ pc'[t] # "load") =>
                /\ pc'[t] = "body"
                /\ disk # "object" => loc'[t] = EmptyDict
          /\ (LeavesBody(t) /\ disk # "object") =>
                /\ op[t].name = "plan" => ret'[t] = "free"
                /\ op[t].name = "get" => ret'[t] = EmptyDict
                /\ op[t].name \in {"plan", "get"} => (store' = store /\ disk' = disk)
                /\ op[t].name \notin {"plan", "get"} =>
                      /\ disk' = "object"
                      /\ DOMAIN store' = {str(op[t].u)} \cup
                            (IF op[t].name = "referral" THEN {str(op[t].v)} ELSE {})
                      /\ store' = Awaited(op[t], EmptyDict, now)]_vars

\* the file was not valid JSON; a credit purchase of 2 has completed and the
\* store is the record of that purchase alone
C20_Witness ==
    /\ hist.disk = "invalid"
    /\ disk = "object"
    /\ \E t \in DOMAIN pc :
          /\ pc[t] = "done"
          /\ op[t] = [name |-> "add", u |-> 1, v |-> 2, kind |-> ""]
    /\ Credits(store, 1) = 2
    /\ DOMAIN store = {str(1)}

----------------------------------------------------------------------------
\* Accounting and failure handling of the effects pipeline, under SpecFx.

\* the run h of handle_message produced an output file within the size limit
ValidOutput(h) ==
    /\ h.handler = "handle_message" /\ h.m = "video"
    /\ h.e.dl = "ok" /\ h.e.stats = "ok" /\ h.e.filter = "ok"
    /\ h.e.out = "exists" /\ h.e.size = "ok"

\* C21: once the pipeline has produced a valid output within the size limit,
\* _finalize_effect_entitlement is called, whether or not sending the result
\* to the chat succeeds.
C21_ConsumedWhateverDelivery == ValidOutput(hist) => hist.finalized

\* the run h ended because stats extraction raised (on the user's video or on
\* the reference), the filter raised, or the filter left no output file
PipelineFailed(h) ==
    \/ /\ h.handler = "handle_message" /\ h.m = "video" /\ h.e.dl = "ok"
       /\ \/ h.e.stats = "raise"
          \/ h.e.filter = "raise"
          \/ h.e.out = "missing"
    \/ h.handler = "type_callback" /\ h.e.ref = "raise"

\* C22: whenever stats extraction fails, the filter fails or the filter
\* produces no output file, the user receives error_try_again, no entitlement
\* is consumed and the temporary files of the session are removed.
C22_PipelineFailureHandling ==
    /\ [](PipelineFailed(hist) =>
             /\ hist.reply = "error_try_again"
             /\ ~hist.finalized
             /\ files = {})
    /\ [][PipelineFailed(hist') => store' = store]_vars

\* the run h of handle_message reached _apply_eq_filter
FilterApplied(h) ==
    /\ h.handler = "handle_message" /\ h.m = "video"
    /\ h.e.dl = "ok" /\ h.e.stats = "ok"

\* C23: handle_message never applies the filter while
\* effects_entitlement_kind is absent from the session, for any sequence of
\* effects-button clicks, reference downloads, links and videos.
C23_FilterOnlyWithEntitlement == FilterApplied(hist) => hist.kind \in Kinds

\* the run h of handle_message is an exit of an effects session: a video was
\* received (whatever became of it) or a link abandoned the session
SessionExit(h) ==
    /\ h.handler = "handle_message"
    /\ h.reply # "prompt_send_link" /\ h.reply # "choose_type"
    /\ \/ h.m = "video" /\ h.e # NoEnv
       \/ h.m = "link"

\* C24: every temporary media file written by an effects session (reference
\* video, user video, filtered output) is removed on every exit path of the
\* session: success, pipeline failure, user-video download failure, output
\* too large, abandonment.
C24_TempFilesRemoved == SessionExit(hist) => files = {}

----------------------------------------------------------------------------
\* SpecPaths: the effects sessions of the users in Users, each with its own
\* context.user_data, sending their messages in the chats in Chats.  Handlers
\* run one after the other; a session is in flight from the effects click that
\* set effects_waiting_video to the handler that clears it.  The handlers run
\* within one second: now, which is also int(time.time()), stays as it is.
\* hist names the user whose handler ran last.

MaxVideo == 2
MaxChat == 2
VideoIds == 1..MaxVideo
Chats == 1..MaxChat

\* DOWNLOAD_DIR / "effects_ref_%(id)s.%(ext)s" as prepare_filename fills it
RefPath(id) == <<"effects_ref", id>>
\* DOWNLOAD_DIR / f"effects_user_{chat_id}_{ts}.mp4"
UserPath(chat_id, ts) == <<"effects_user", chat_id, ts>>
\* DOWNLOAD_DIR / f"effects_out_{chat_id}_{ts}.mp4"
OutPath(chat_id, ts) == <<"effects_out", chat_id, ts>>

\* type_callback with data = type_effects, for user u
PathTypeEffects(u, e) ==
    /\ IF "last_url" \notin DOMAIN user_data[u]
       THEN UNCHANGED <<user_data, files>>
       ELSE LET kind == _plan_effect_entitlement(Loaded, u, now)
                ud1 == SetItem(user_data[u], "effects_entitlement_kind", kind)
                files1 == WithoutRef(ud1, files)
                ref_file == RefPath(ud1["last_url"])
            IN IF kind = "None"
               THEN UNCHANGED <<user_data, files>>
               ELSE IF e.ref = "fail"
               THEN /\ user_data' = [user_data EXCEPT
                                        ![u] = Pop(ud1, "effects_entitlement_kind")]
                    /\ files' = files1
               ELSE IF e.ref = "raise"
               THEN /\ user_data' = [user_data EXCEPT ![u] = ud1]
                    /\ files' = files1 \cup {ref_file}
               ELSE /\ user_data' = [user_data EXCEPT ![u] =
                         SetItem(SetItem(SetItem(ud1, "effects_ref_file", ref_file),
                                         "effects_ref_stats", "stats"),
                                 "effects_waiting_video", "True")]
                    /\ files' = files1 \cup {ref_file}
    /\ hist' = [u |-> u]
    /\ UNCHANGED <<store, disk, tmp, now, lock, pc, op, loc, ret>>

\* handle_message for a message m of user u in chat chat_id; a link names the
\* video id
PathHandleMessage(u, chat_id, m, id, e) ==
    /\ IF "effects_waiting_video" \in DOMAIN user_data[u]
       THEN LET ud0 == user_data[u]
                ud1 == IF m = "link"
                       THEN Pop(Pop(Pop(Pop(ud0, "effects_waiting_video"),
                                        "effects_ref_stats"),
                                    "effects_entitlement_kind"),
                                "effects_ref_file")
                       ELSE ud0
                files1 == IF m = "link" THEN WithoutRef(ud0, files) ELSE files
                kind == IF "effects_entitlement_kind" \in DOMAIN ud1
                        THEN ud1["effects_entitlement_kind"] ELSE "None"
                closed == Pop(Pop(ud1, "effects_waiting_video"), "effects_entitlement_kind")
                user_path == UserPath(chat_id, now)
                out_path == OutPath(chat_id, now)
            IN IF "effects_ref_stats" \notin DOMAIN ud1
               THEN /\ user_data' = [user_data EXCEPT ![u] = closed]
                    /\ files' = files1
                    /\ UNCHANGED <<store, disk>>
               ELSE IF m # "video"
               THEN UNCHANGED <<user_data, files, store, disk>>
               ELSE IF e.dl # "ok"
               THEN /\ UNCHANGED <<user_data, store, disk>>
                    /\ files' = IF e.dl = "raise_partial"
                                THEN files \cup {user_path} ELSE files
               ELSE LET r == Pipeline(e)
                        fin == ShouldFinalize(r.sent_ok)
                        o == [name |-> "finalize", u |-> u, v |-> 0, kind |-> kind]
                    IN /\ user_data' = [user_data EXCEPT ![u] = closed]
                       /\ store' = IF fin THEN Awaited(o, Loaded, now) ELSE store
                       /\ disk' = IF fin /\ Writes(o, Loaded) THEN "object" ELSE disk
                       /\ files' = files \ {user_path, out_path}
       ELSE /\ user_data' = IF m = "link"
                            THEN [user_data EXCEPT ![u] = SetItem(@, "last_url", id)]
                            ELSE user_data
            /\ UNCHANGED <<files, store, disk>>
    /\ hist' = [u |-> u]
    /\ UNCHANGED <<now, tmp, lock, pc, op, loc, ret>>

InitPaths ==
    /\ store = EmptyDict
    /\ disk = "missing"
    /\ now = 1
    /\ user_data = [u \in Users |-> EmptyDict]
    /\ files = {}
    /\ tmp = NoTmp
    /\ lock = 0
    /\ pc = [t \in Solo |-> "idle"]
    /\ op = [t \in Solo |-> NoOp]
    /\ loc = [t \in Solo |-> EmptyDict]
    /\ ret = [t \in Solo |-> ""]
    /\ hist = [u |-> 0]

NextPaths ==
    \/ \E u \in Users, e \in RefEnvs : PathTypeEffects(u, e)
    \/ \E u \in Users, c \in Chats, id \in VideoIds :
          PathHandleMessage(u, c, "link", id, NoEnv)
    \/ \E u \in Users, c \in Chats : PathHandleMessage(u, c, "text", 1, NoEnv)
    \/ \E u \in Users, c \in Chats, e \in VideoEnvs :
          PathHandleMessage(u, c, "video", 1, e)

SpecPaths == InitPaths /\ [][NextPaths]_vars

\* the effects session of user u is in flight
InFlight(u) == "effects_waiting_video" \in DOMAIN user_data[u]

\* C25: no two effects sessions that are in flight at the same time use the
\* same temporary file path, and a handler of one session never deletes the
\* file of another session in flight.
C25_PrivatePaths ==
    /\ [](\A u, v \in Users :
             (u # v /\ InFlight(u) /\ InFlight(v)) =>
                 user_data[u]["effects_ref_file"] # user_data[v]["effects_ref_file"])
    /\ [][\A v \in Users :
             (v # hist'.u /\ InFlight(v)
                 /\ user_data[v]["effects_ref_file"] \in files) =>
                 user_data[v]["effects_ref_file"] \in files']_vars

----------------------------------------------------------------------------
\* SpecHook: one progress hook made by _make_progress_hook and the download
\* worker that calls it.  now is time.monotonic() counted in steps of
\* 1 / UnitsPerSecond seconds; loc holds the closure of the hook: the cell
\* last and the state of the event loop it schedules on.  pc and ret are the
\* worker's position and the outcome of its download.  hist keeps the fate the
\* download has by itself, the last edit that was scheduled, a bit seq that
\* flips at every scheduled edit, a bit call that flips at every call of the
\* hook, and whether the last call met a failing edit.

UnitsPerSecond == 2
MaxMono == 6
MaxBytes == 2

\* _format_bytes: the unit index the while loop stops at
RECURSIVE UnitOf(_, _)
UnitOf(num, u) == IF num >= 1024 /\ u < 4 THEN UnitOf(num \div 1024, u + 1) ELSE u

RECURSIVE Pow1024(_)
Pow1024(u) == IF u = 0 THEN 1 ELSE 1024 * Pow1024(u - 1)

\* _format_bytes of a key of d: "?" for a missing or non-positive value,
\* whole bytes, or tenths of the unit (f"{n:.1f}")
_format_bytes(d, k) ==
    IF k \notin DOMAIN d \/ d[k] <= 0 THEN <<"?">>
    ELSE LET u == UnitOf(d[k], 0)
         IN IF u = 0 THEN <<d[k], "B">>
            ELSE <<(d[k] * 20 + Pow1024(u)) \div (2 * Pow1024(u)), "tenths", u>>

\* _format_eta of a key of d
_format_eta(d, k) ==
    IF k \notin DOMAIN d \/ d[k] <= 0 THEN <<"?">>
    ELSE LET h == d[k] \div 3600
             m == (d[k] % 3600) \div 60
             s == d[k] % 60
         IN IF h > 0 THEN <<h, "h", m, "m">>
            ELSE IF m > 0 THEN <<m, "m", s, "s">>
            ELSE <<s, "s">>

\* the dicts yt-dlp passes to the hook
WithKey(ds, k, vals) == ds \cup {SetItem(d, k, v) : d \in ds, v \in vals}
ProgressDicts ==
    WithKey(WithKey(WithKey({[status |-> "downloading", speed |-> 1, eta |-> 1]},
        "downloaded_bytes", 1..MaxBytes), "total_bytes", {MaxBytes}),
        "total_bytes_estimate", {MaxBytes})
    \cup {[status |-> "downloading"], [status |-> "finished"], [status |-> "error"]}

\* hook: the text it passes to _schedule, "" when it does not call it
HookText(d) ==
    IF d["status"] = "downloading"
    THEN LET tk == IF "total_bytes" \in DOMAIN d THEN "total_bytes"
                   ELSE "total_bytes_estimate"
             pct_txt == IF "downloaded_bytes" \in DOMAIN d /\ tk \in DOMAIN d
                           /\ d[tk] > 0
                        THEN <<(d["downloaded_bytes"] * 100) \div d[tk], "%">>
                        ELSE <<"?%">>
         IN <<"Downloading video", pct_txt, _format_bytes(d, "downloaded_bytes"),
              _format_bytes(d, tk), _format_bytes(d, "speed"), _format_eta(d, "eta")>>
    ELSE IF d["status"] = "finished" THEN <<"Download finished">>
    ELSE ""

\* mutant: no minimum distance between two edits
TooSoon_Never(t, last) == FALSE

\* if now - last["t"] < 1.0
TooSoon(t, last) == t - last.t < UnitsPerSecond

\* mutant: an exception of the scheduling leaves _schedule
Swallowed_Never(exc) == FALSE

\* except Exception: return, around run_coroutine_threadsafe and in _done
Swallowed(exc) == TRUE

\* _schedule drops the text
Dropped(text, t, last) == text = "" \/ text = last.text \/ TooSoon(t, last)

\* the worker calls hook(d); edit is what the edit coroutine will do
Hook(d, edit) ==
    /\ pc[1] = "downloading"
    /\ LET text == HookText(d)
           closed == loc[1].loop = "closed"
       IN IF Dropped(text, now, loc[1].last)
          THEN /\ UNCHANGED <<loc, pc, ret>>
               /\ hist' = [hist EXCEPT !.call = 1 - @, !.failed = FALSE]
          ELSE /\ loc' = [loc EXCEPT ![1].last = [t |-> now, text |-> text]]
               /\ hist' = IF closed
                          THEN [hist EXCEPT !.call = 1 - @, !.failed = TRUE]
                          ELSE [hist EXCEPT !.call = 1 - @, !.t = now, !.text = text,
                                            !.any = TRUE, !.seq = 1 - @,
                                            !.failed = (edit = "raise")]
               /\ IF closed /\ ~Swallowed("RuntimeError")
                  THEN pc' = [pc EXCEPT ![1] = "done"] /\ ret' = [ret EXCEPT ![1] = "error"]
                  ELSE UNCHANGED <<pc, ret>>
    /\ UNCHANGED <<store, disk, tmp, now, lock, op, user_data, files>>

\* time passes between two callbacks
Elapse ==
    /\ now < MaxMono
    /\ now' = now + 1
    /\ UNCHANGED <<store, disk, tmp, lock, pc, op, loc, ret, hist, user_data, files>>

\* the event loop is closed while the worker thread is still downloading
CloseLoop ==
    /\ pc[1] = "downloading"
    /\ loc[1].loop = "running"
    /\ loc' = [loc EXCEPT ![1].loop = "closed"]
    /\ UNCHANGED <<store, disk, tmp, now, lock, pc, op, ret, hist, user_data, files>>

\* ydl.download returns or raises by itself
DownloadEnds ==
    /\ pc[1] = "downloading"
    /\ pc' = [pc EXCEPT ![1] = "done"]
    /\ ret' = [ret EXCEPT ![1] = hist.fate]
    /\ UNCHANGED <<store, disk, tmp, now, lock, op, loc, hist, user_data, files>>

InitHook ==
    /\ store = EmptyDict
    /\ disk = "missing"
    /\ now \in 0..UnitsPerSecond
    /\ user_data = EmptyDict
    /\ files = {}
    /\ tmp = NoTmp
    /\ lock = 0
    /\ pc = [t \in Solo |-> "downloading"]
    /\ op = [t \in Solo |-> NoOp]
    /\ loc = [t \in Solo |-> [last |-> [t |-> 0, text |-> ""], loop |-> "running"]]
    /\ ret = [t \in Solo |-> ""]
    /\ hist \in {[fate |-> f, t |-> 0, text |-> "", any |-> FALSE, seq |-> 0,
                  call |-> 0, failed |-> FALSE] : f \in {"ok", "error"}}

NextHook ==
    \/ \E d \in ProgressDicts, edit \in {"ok", "raise"} : Hook(d, edit)
    \/ Elapse
    \/ CloseLoop
    \/ DownloadEnds

SpecHook == InitHook /\ [][NextHook]_vars

\* C26: any two message edits scheduled by one progress hook are at least one
\* second apart, and an edit is scheduled only with a non-empty text that
\* differs from the text of the previously scheduled edit.
C26_Debounce ==
    [][hist'.seq # hist.seq =>
          /\ hist'.text # ""
          /\ hist.any => /\ hist'.text # hist.text
                         /\ hist'.t - hist.t >= UnitsPerSecond]_vars

\* a second edit has been scheduled, exactly one second after the first
C26_Witness ==
    /\ hist.any
    /\ hist.seq = 0
    /\ hist.t = 2 * UnitsPerSecond
    /\ loc[1].last.t = hist.t
    /\ hist.text = <<"Download finished">>

\* C27: a failing progress edit (the scheduling raising, or the edit
\* coroutine raising) never reaches the worker: the hook returns, the
\* download goes on, and its outcome is the one it has by itself.
C27_EditFailureContained ==
    /\ [](pc[1] = "done" => ret[1] = hist.fate)
    /\ [][(hist'.call # hist.call /\ hist'.failed) => pc' = pc]_vars

\* the loop was closed under the worker, a hook call met the scheduling
\* error, and the download then completed with its own result
C27_Witness ==
    /\ hist.failed
    /\ loc[1].loop = "closed"
    /\ pc[1] = "done"
    /\ ret[1] = "ok"

----------------------------------------------------------------------------
\* SpecFlow: one plan -> work -> finalize effects flow of user 1, step by
\* step.  The ledger calls are the coroutines above; between them pc[1] names
\* the stage the flow is suspended in.  hist keeps the kind plan returned,
\* the number of times the flow acquired the lock, whether finalize was
\* called, whether its save raised, and what the handler did with its result.

\* the awaits between plan and finalize, in order
FlowStages ==
    <<"ref_download", "wait_video", "user_download", "stats", "transcode", "send">>
\* the stages that run in a worker thread or on the network
SlowWork == {"ref_download", "user_download", "stats", "transcode"}

StageAfter(s) ==
    LET i == CHOOSE k \in 1..Len(FlowStages) : FlowStages[k] = s
    IN IF i < Len(FlowStages) THEN FlowStages[i + 1] ELSE "finalize"

FlowOps == {[name |-> "plan", u |-> 1, v |-> 0, kind |-> ""]}

PremiumStore == _grant_premium(EmptyDict, 1, PremiumSeconds, 1)
CreditStore ==
    _add_credits(
        _finalize_effect_entitlement(
            _finalize_effect_entitlement(EmptyDict, 1, "free", 1), 1, "free", 1), 1, 1)

\* kind = await _plan_effect_entitlement(...) has returned in type_callback
FlowPlanned(t) ==
    /\ pc[t] = "done" /\ op[t].name = "plan"
    /\ IF ret[t] \in {"None", "raise"}
       THEN pc' = [pc EXCEPT ![t] = "end"] /\ UNCHANGED hist
       ELSE /\ pc' = [pc EXCEPT ![t] = FlowStages[1]]
            /\ hist' = [hist EXCEPT !.kind = ret[t]]
    /\ UNCHANGED <<store, disk, tmp, now, lock, op, loc, ret, user_data, files>>

\* the await the flow is suspended in completes; a failure ends the flow
\* without finalize, success of the last one sets sent_ok and the finally
\* block calls _finalize_effect_entitlement(user, kind)
Work(t, ok) ==
    /\ pc[t] \in {FlowStages[i] : i \in 1..Len(FlowStages)}
    /\ LET next == StageAfter(pc[t])
           o == [name |-> "finalize", u |-> op[t].u, v |-> 0, kind |-> hist.kind]
       IN IF ~ok
          THEN pc' = [pc EXCEPT ![t] = "end"] /\ UNCHANGED <<op, ret, hist>>
          ELSE IF next # "finalize"
          THEN pc' = [pc EXCEPT ![t] = next] /\ UNCHANGED <<op, ret, hist>>
          ELSE /\ op' = [op EXCEPT ![t] = o]
               /\ hist' = [hist EXCEPT !.called = TRUE]
               /\ IF ReturnsEarly(o)
                  THEN /\ pc' = [pc EXCEPT ![t] = "done"]
                       /\ ret' = [ret EXCEPT ![t] = EarlyResult(o)]
                  ELSE /\ pc' = [pc EXCEPT ![t] = "acquire"]
                       /\ ret' = [ret EXCEPT ![t] = ""]
    /\ UNCHANGED <<store, disk, tmp, now, lock, loc, user_data, files>>

\* _save_user_store_sync raises inside finalize; `async with` frees the lock
SaveRaises(t) ==
    /\ InBody(t, "finalize")
    /\ pc' = [pc EXCEPT ![t] = "done"]
    /\ ret' = [ret EXCEPT ![t] = "raise"]
    /\ lock' = IF lock = t THEN 0 ELSE lock
    /\ loc' = [loc EXCEPT ![t] = EmptyDict]
    /\ UNCHANGED <<store, disk, tmp, now, op, user_data, files>>

\* try: await _finalize_effect_entitlement(...) except Exception: pass
AfterFinalize(r) == IF r = "raise" THEN "discarded" ELSE "returned"

\* the finalize call of the finally block has returned or raised
FlowEnd(t) ==
    /\ pc[t] = "done" /\ op[t].name = "finalize"
    /\ pc' = [pc EXCEPT ![t] = "end"]
    /\ hist' = [hist EXCEPT !.outcome = AfterFinalize(ret[t])]
    /\ UNCHANGED <<store, disk, tmp, now, lock, op, loc, ret, user_data, files>>

InitFlow ==
    /\ store \in {EmptyDict, PremiumStore, CreditStore}
    /\ now = 1
    /\ TasksInit(Solo)
    /\ hist = [kind |-> "None", acq |-> 0, called |-> FALSE, raised |-> FALSE,
               outcome |-> ""]

NextFlow ==
    \/ \E t \in Solo : Call(t, FlowOps) /\ UNCHANGED <<hist, user_data, files, tmp>>
    \/ \E t \in Solo : Acquire(t) /\ hist' = [hist EXCEPT !.acq = @ + 1]
                           /\ UNCHANGED <<user_data, files, tmp>>
    \/ \E t \in Solo : Load(t) /\ UNCHANGED <<hist, user_data, files, tmp>>
    \/ \E t \in Solo : PlanBody(t) /\ UNCHANGED <<hist, user_data, files, tmp>>
    \/ \E t \in Solo : FlowPlanned(t)
    \/ \E t \in Solo, ok \in BOOLEAN : Work(t, ok)
    \/ \E t \in Solo : FinalizeBody(t) /\ UNCHANGED <<hist, user_data, files, tmp>>
    \/ \E t \in Solo : SaveRaises(t) /\ hist' = [hist EXCEPT !.raised = TRUE]
    \/ \E t \in Solo : Release(t) /\ UNCHANGED <<hist, user_data, files, tmp>>
    \/ \E t \in Solo : FlowEnd(t)
    \/ Tick /\ UNCHANGED <<hist, user_data, files, tmp>>

SpecFlow == InitFlow /\ [][NextFlow]_vars

\* the flow has gone from plan through the work to a finalize call that has
\* come back
FlowDone == pc[1] = "end" /\ hist.called

\* the lock is free while the reference download, the user-video download,
\* stats extraction or the transcode is running
FreeDuringWork == pc[1] \in SlowWork => lock = 0

\* C28 as stated: in one plan -> work -> finalize flow the lock is acquired
\* exactly twice, once by plan and once by finalize, and it is free at every
\* moment of the slow work.
C28_LockTwiceAndFree ==
    /\ [](FlowDone => hist.acq = 2)
    /\ []FreeDuringWork

\* C28: in one plan -> work -> finalize flow the lock is acquired once by
\* plan and once more by finalize when the kind is 'free' or 'credit', not
\* again when the kind is 'premium'; it is never held by the flow between its
\* ledger calls, so it is free at every moment of the slow work.
C28_LockPerLedgerCall ==
    /\ [](FlowDone => hist.acq = IF hist.kind = "premium" THEN 1 ELSE 2)
    /\ []FreeDuringWork
    /\ [][hist'.acq # hist.acq =>
             \/ hist.acq = 0 /\ op[1].name = "plan"
             \/ hist.acq = 1 /\ op[1].name = "finalize"]_vars

\* a flow planned as 'premium' went through all its work and its finalize
\* call returned; the lock was taken by plan only
C28_Witness ==
    /\ FlowDone
    /\ hist.kind = "premium"
    /\ hist.acq = 1
    /\ hist.outcome = "returned"
    /\ lock = 0

\* C30: a failure of the ledger mutation is never silently discarded: when
\* the finalize after successful work raises, the handler surfaces it.
C30_FinalizeFailureSurfaced ==
    (FlowDone /\ hist.raised) => hist.outcome # "discarded"

----------------------------------------------------------------------------
\* SpecEq: _compute_eq_params on bounded stats.  The floats are modelled as
\* exact fractions [n, d] with d > 0; the stats are multiples of 1 / StatDen.
\* loc[1] holds the arguments src and ref, ret[1] the returned triple.

StatDen == 2
MaxRange == 4

Rat(n, d) == [n |-> n, d |-> d]
Lt(a, b) == a.n * b.d < b.n * a.d
Eq(a, b) == a.n * b.d = b.n * a.d
Sub(a, b) == Rat(a.n * b.d - b.n * a.d, a.d * b.d)
\* a / b for b > 0
Div(a, b) == Rat(a.n * b.d, a.d * b.n)
\* max(a, b) as Python computes it: b only if b > a
MaxOf(a, b) == IF Lt(a, b) THEN b ELSE a

\* mutant: the value is returned as it is
_clamp_Unclamped(val, lo, hi) == val

_clamp(val, lo, hi) ==
    IF Lt(val, lo) THEN lo
    ELSE IF Lt(hi, val) THEN hi
    ELSE val

_compute_eq_params(src, ref) ==
    LET b == _clamp(Div(Sub(ref["yavg"], src["yavg"]), Rat(255, 1)),
                    Rat(-35, 100), Rat(35, 100))
        c == _clamp(Div(ref["yrange"], MaxOf(Rat(1, 1), src["yrange"])),
                    Rat(7, 10), Rat(16, 10))
        s == _clamp(Div(ref["crange"], MaxOf(Rat(1, 1), src["crange"])),
                    Rat(6, 10), Rat(18, 10))
    IN <<b, c, s>>

\* non-negative finite stats: luma averages over the 8-bit range, ranges
\* below, at and above 1
YAvgs == {Rat(n, StatDen) : n \in {0, 1, 100 * StatDen, 255 * StatDen}}
Ranges == {Rat(n, StatDen) : n \in 0..MaxRange}
StatsDicts ==
    {[yavg |-> a, yrange |-> y, crange |-> c] : a \in YAvgs, y \in Ranges, c \in Ranges}

\* b, c, s = _compute_eq_params(src_stats, ref_stats)
ComputeEq ==
    /\ pc[1] = "idle"
    /\ pc' = [pc EXCEPT ![1] = "done"]
    /\ ret' = [ret EXCEPT ![1] = _compute_eq_params(loc[1].src, loc[1].ref)]
    /\ UNCHANGED <<store, disk, tmp, now, lock, op, loc, hist, user_data, files>>

InitEq ==
    /\ store = EmptyDict
    /\ disk = "missing"
    /\ now = 1
    /\ user_data = EmptyDict
    /\ files = {}
    /\ tmp = NoTmp
    /\ lock = 0
    /\ pc = [t \in Solo |-> "idle"]
    /\ op = [t \in Solo |-> NoOp]
    /\ loc \in {[t \in Solo |-> [src |-> a, ref |-> b]] : a \in StatsDicts, b \in StatsDicts}
    /\ ret = [t \in Solo |-> ""]
    /\ hist = EmptyDict

NextEq == ComputeEq

SpecEq == InitEq /\ [][NextEq]_vars

\* lo <= x <= hi
Between(x, lo, hi) == ~Lt(x, lo) /\ ~Lt(hi, x)

\* the returned triple lies in [-0.35, 0.35] x [0.7, 1.6] x [0.6, 1.8]
InEqBox(r) ==
    /\ Between(r[1], Rat(-35, 100), Rat(35, 100))
    /\ Between(r[2], Rat(7, 10), Rat(16, 10))
    /\ Between(r[3], Rat(6, 10), Rat(18, 10))

\* the returned triple is (0, 1, 1)
Neutral(r) == Eq(r[1], Rat(0, 1)) /\ Eq(r[2], Rat(1, 1)) /\ Eq(r[3], Rat(1, 1))

\* C29 as stated: the result lies in the box for all non-negative finite
\* stats, and it is (0, 1, 1) whenever source stats equal reference stats.
C29_BoxAndNeutral ==
    pc[1] = "done" =>
        /\ InEqBox(ret[1])
        /\ loc[1].src = loc[1].ref => Neutral(ret[1])

\* C29: the result lies in [-0.35, 0.35] x [0.7, 1.6] x [0.6, 1.8] for all
\* non-negative finite stats, and it is (0, 1, 1) whenever source stats equal
\* reference stats and their yrange and crange are at least 1.
C29_BoxAndNeutralFromOne ==
    pc[1] = "done" =>
        /\ InEqBox(ret[1])
        /\ (/\ loc[1].src = loc[1].ref
            /\ ~Lt(loc[1].src["yrange"], Rat(1, 1))
            /\ ~Lt(loc[1].src["crange"], Rat(1, 1))) => Neutral(ret[1])

\* equal stats with ranges above 1 gave (0, 1, 1)
C29_Witness ==
    /\ pc[1] = "done"
    /\ loc[1].src = loc[1].ref
    /\ loc[1].src["yavg"] = Rat(100 * StatDen, StatDen)
    /\ loc[1].src["yrange"] = Rat(MaxRange, StatDen)
    /\ loc[1].src["crange"] = Rat(MaxRange - 1, StatDen)
    /\ Neutral(ret[1])

----------------------------------------------------------------------------
\* SpecCap: concurrent plan -> work -> finalize flows of user 1, who has no
\* premium and no credits.  Each task is one flow; hist[t] is the kind its
\* plan returned.

CapOps == {[name |-> "plan", u |-> 1, v |-> 0, kind |-> ""]}

\* one free use of today is spent
OneUsedStore == _finalize_effect_entitlement(EmptyDict, 1, "free", 1)

\* kind = await _plan_effect_entitlement(...) has returned to the flow
CapPlanned(t) ==
    /\ pc[t] = "done" /\ op[t].name = "plan"
    /\ IF ret[t] \in {"None", "raise"}
       THEN pc' = [pc EXCEPT ![t] = "end"] /\ UNCHANGED hist
       ELSE /\ pc' = [pc EXCEPT ![t] = "work"]
            /\ hist' = [hist EXCEPT ![t] = ret[t]]
    /\ UNCHANGED <<store, disk, tmp, now, lock, op, loc, ret, user_data, files>>

\* the downloads, the filter and the delivery come to their end: when they
\* succeeded the finally block calls _finalize_effect_entitlement(user, kind)
CapWork(t, ok) ==
    /\ pc[t] = "work"
    /\ LET o == [name |-> "finalize", u |-> op[t].u, v |-> 0, kind |-> hist[t]]
       IN IF ~ok
          THEN pc' = [pc EXCEPT ![t] = "end"] /\ UNCHANGED <<op, ret>>
          ELSE /\ op' = [op EXCEPT ![t] = o]
               /\ IF ReturnsEarly(o)
                  THEN /\ pc' = [pc EXCEPT ![t] = "done"]
                       /\ ret' = [ret EXCEPT ![t] = EarlyResult(o)]
                  ELSE /\ pc' = [pc EXCEPT ![t] = "acquire"]
                       /\ ret' = [ret EXCEPT ![t] = ""]
    /\ UNCHANGED <<store, disk, tmp, now, lock, loc, hist, user_data, files>>

\* the finalize call has returned; the flow is over
CapEnd(t) ==
    /\ pc[t] = "done" /\ op[t].name = "finalize"
    /\ pc' = [pc EXCEPT ![t] = "end"]
    /\ UNCHANGED <<store, disk, tmp, now, lock, op, loc, ret, hist, user_data, files>>

InitCap ==
    /\ store \in {EmptyDict, OneUsedStore}
    /\ now = 1
    /\ TasksInit(Tasks)
    /\ hist = [t \in Tasks |-> "None"]

NextCap ==
    \/ \E t \in Tasks : Call(t, CapOps) /\ UNCHANGED <<hist, user_data, files, tmp>>
    \/ \E t \in Tasks : Acquire(t) /\ UNCHANGED <<hist, user_data, files, tmp>>
    \/ \E t \in Tasks : Load(t) /\ UNCHANGED <<hist, user_data, files, tmp>>
    \/ \E t \in Tasks : PlanBody(t) /\ UNCHANGED <<hist, user_data, files, tmp>>
    \/ \E t \in Tasks : CapPlanned(t)
    \/ \E t \in Tasks, ok \in BOOLEAN : CapWork(t, ok)
    \/ \E t \in Tasks : FinalizeBody(t) /\ UNCHANGED <<hist, user_data, files, tmp>>
    \/ \E t \in Tasks : Release(t) /\ UNCHANGED <<hist, user_data, files, tmp>>
    \/ \E t \in Tasks : CapEnd(t)
    \/ Tick /\ UNCHANGED <<hist, user_data, files, tmp>>

SpecCap == InitCap /\ [][NextCap]_vars

\* the free uses the store counts for the day of t
FreeToday(st, u, t) == IF FreeDay(st, u) = t \div DayLen THEN FreeUsed(st, u) ELSE 0

----------------------------------------------------------------------------
\* One consumption per plan, under SpecFx.

\* the run h of handle_message entered the processing of a user's video (the
\* try block after the download)
Processed(h) == h.handler = "handle_message" /\ h.m = "video" /\ h.e.dl = "ok"

Waiting(ud) == "effects_waiting_video" \in DOMAIN ud

\* C32: every exit from processing a user's video leaves
\* effects_waiting_video and effects_entitlement_kind cleared; handle_message
\* changes the ledger only by the finalize of a session that was waiting for
\* its video; and a session starts waiting only through an effects click
\* whose plan returned an entitlement.  Hence a second video is neither
\* processed nor charged without a new plan.
C32_ConsumedAtMostOnce ==
    /\ [](Processed(hist) =>
             /\ ~Waiting(user_data)
             /\ "effects_entitlement_kind" \notin DOMAIN user_data)
    /\ [][(store' # store /\ hist'.handler = "handle_message") =>
             /\ Waiting(user_data)
             /\ Processed(hist') /\ hist'.finalized]_vars
    /\ [][(~Waiting(user_data) /\ Waiting(user_data')) =>
             /\ hist'.handler = "type_callback"
             /\ hist'.kind \in {"premium", "free", "credit"}]_vars

\* a free use was consumed, the session is closed, and a further video was
\* answered with the prompt for a link: nothing more was charged
C32_Witness ==
    /\ hist = Ran("handle_message", "video", NoEnv, "None", "prompt_send_link", FALSE)
    /\ FreeUsed(store, 1) = 1
    /\ ~Waiting(user_data)
    /\ "effects_ref_stats" \in DOMAIN user_data

----------------------------------------------------------------------------
\* SpecLive: ledger calls for user 1 that keep coming, any of whose saves may
\* raise, under the scheduling asyncio gives: a coroutine that can run is run
\* (weak fairness of its steps), and asyncio.Lock wakes its waiters in the
\* order they came, so a waiter cannot be passed over for ever (strong
\* fairness of Acquire).

LiveOps ==
    {o \in AddOps \cup PlanOps \cup FinalizeOps \cup ReferralOps :
        /\ o.u = 1 /\ ~ReturnsEarly(o)
        /\ o.name = "add" => o.v = 1
        /\ o.name = "referral" => o.v = MaxUser}

\* await asyncio.to_thread(_save_user_store_sync, store) raises; `async
\* with` frees the lock and the exception ends the call
SaveError(t) ==
    /\ pc[t] = "body"
    /\ \/ op[t].name \in {"add", "finalize"}
       \/ op[t].name = "referral" /\ ~AlreadyReferred(loc[t], op[t].u)
    /\ pc' = [pc EXCEPT ![t] = "done"]
    /\ ret' = [ret EXCEPT ![t] = "raise"]
    /\ lock' = IF lock = t THEN 0 ELSE lock
    /\ loc' = [loc EXCEPT ![t] = EmptyDict]
    /\ UNCHANGED <<store, disk, now, op>>

\* the steps of the call in slot t once it holds the lock
LockedStep(t) ==
    \/ Load(t) /\ UNCHANGED <<hist, user_data, files, tmp>>
    \/ AddBody(t) /\ UNCHANGED <<hist, user_data, files, tmp>>
    \/ PlanBody(t) /\ UNCHANGED <<hist, user_data, files, tmp>>
    \/ FinalizeBody(t) /\ UNCHANGED <<hist, user_data, files, tmp>>
    \/ ReferralBody(t) /\ UNCHANGED <<hist, user_data, files, tmp>>
    \/ SaveError(t) /\ UNCHANGED <<hist, user_data, files, tmp>>
    \/ Release(t) /\ UNCHANGED <<hist, user_data, files, tmp>>

AcquireStep(t) == Acquire(t) /\ UNCHANGED <<hist, user_data, files, tmp>>

InitLive ==
    /\ store = EmptyDict
    /\ now = 1
    /\ TasksInit(Tasks)
    /\ hist = EmptyDict

NextLive ==
    \/ \E t \in Tasks : Call(t, LiveOps) /\ Within(op'[t])
                            /\ UNCHANGED <<hist, user_data, files, tmp>>
    \/ \E t \in Tasks : AcquireStep(t)
    \/ \E t \in Tasks : LockedStep(t)
    \/ \E t \in Tasks : Return(t) /\ UNCHANGED <<hist, user_data, files, tmp>>

SpecLive ==
    /\ InitLive /\ [][NextLive]_vars
    /\ \A t \in Tasks : WF_vars(LockedStep(t)) /\ SF_vars(AcquireStep(t))

----------------------------------------------------------------------------
\* SpecCorrupt: the calls of SpecLoad started on a user_store.json that held
\* the records of users 1 and 2 and has become unreadable or malformed.
\* While the file is in that condition store stands for the records it held;
\* hist keeps them.

Damaged == {"unreadable", "empty", "invalid", "not_object"}

TwoUserStore == _add_credits(_add_credits(EmptyDict, 1, 1), MaxUser, 1)

InitCorrupt ==
    /\ disk \in Damaged
    /\ store = TwoUserStore
    /\ now = 1
    /\ user_data = EmptyDict
    /\ files = {}
    /\ tmp = NoTmp
    /\ lock = 0
    /\ pc = [t \in Tasks |-> "idle"]
    /\ op = [t \in Tasks |-> NoOp]
    /\ loc = [t \in Tasks |-> EmptyDict]
    /\ ret = [t \in Tasks |-> ""]
    /\ hist = [disk |-> disk, earlier |-> store]

SpecCorrupt == InitCorrupt /\ [][NextLoad]_vars

\* the keys the call o writes on an empty store
WrittenKeys(o) == {str(o.u)} \cup (IF o.name = "referral" THEN {str(o.v)} ELSE {})

\* C34: when the persisted store is unreadable or malformed, the next ledger
\* mutation that saves replaces it with a store holding only the record(s)
\* that mutation wrote: the earlier records of all users are gone, and no
\* call reports an error.
C34_CorruptionDropsRecords ==
    /\ [][\A t \in DOMAIN pc :
             (LeavesBody(t) /\ disk \in Damaged /\ disk' = "object") =>
                /\ DOMAIN store' = WrittenKeys(op[t])
                /\ store' = Awaited(op[t], EmptyDict, now)
                /\ \A k \in DOMAIN hist.earlier \ WrittenKeys(op[t]) :
                      k \notin DOMAIN store'
                /\ ret'[t] # "raise"]_vars
    /\ [](\A t \in DOMAIN pc :
             (pc[t] = "done" /\ op[t].name # "get") => ret[t] # "raise")

\* the file was not valid JSON; a free use of user 1 was finalized, and the
\* store is that record alone: the credits of both users are gone
C34_Witness ==
    /\ hist.disk = "invalid"
    /\ disk = "object"
    /\ \E t \in DOMAIN pc :
          /\ pc[t] = "done"
          /\ op[t] = [name |-> "finalize", u |-> 1, v |-> 0, kind |-> "free"]
    /\ DOMAIN store = {str(1)}
    /\ Credits(store, 1) = 0
    /\ FreeUsed(store, 1) = 1

----------------------------------------------------------------------------
\* SpecDeliver: the delivery step of handle_message for an output that exists
\* and is within the size limit, for a session of user 1 holding a 'free'
\* entitlement.  loc[1] holds what the successive calls of reply_video and
\* reply_document will do; hist keeps the calls made, in order, each with its
\* outcome, and what the handler did after them.

MaxVideoCalls == 4
MaxDocumentCalls == 2

CallOutcomes == {"ok", "TimedOut", "TypeError", "error"}

Event(call, out) == [call |-> call, out |-> out]

\* try: await reply(file, read_timeout=..., write_timeout=...)
\* except TypeError: await reply(file)
\* outs[i] is the outcome of the first call; a TypeError of the second call
\* is an exception like any other
WithFallback(call, outs, i) ==
    IF outs[i] = "TypeError"
    THEN LET second == IF outs[i + 1] = "TypeError" THEN "error" ELSE outs[i + 1]
         IN [out |-> second, calls |-> 2,
             events |-> <<Event(call, "TypeError"), Event(call, second)>>]
    ELSE [out |-> outs[i], calls |-> 1, events |-> <<Event(call, outs[i])>>]

\* mutant: the retry loop catches every exception
Retried_Any(out) == out # "ok"

\* except TimedOut
Retried(out) == out = "TimedOut"

\* for attempt in range(2): the events, whether sent was set, and whether an
\* exception left the loop
RECURSIVE Attempts(_, _, _)
Attempts(outs, i, attempt) ==
    LET a == WithFallback("reply_video", outs, i)
    IN IF a.out = "ok"
       THEN [events |-> a.events, sent |-> TRUE, raised |-> FALSE]
       ELSE IF Retried(a.out)
       THEN IF attempt = 0
            THEN LET r == Attempts(outs, i + a.calls, attempt + 1)
                 IN [r EXCEPT !.events =
                        a.events \o <<Event("sleep", "ok")>> \o r.events]
            ELSE [events |-> a.events, sent |-> FALSE, raised |-> FALSE]
       ELSE [events |-> a.events, sent |-> FALSE, raised |-> TRUE]

\* the delivery of the try block, from `sent = False` to `sent_ok = True`
Delivery(env) ==
    LET v == Attempts(env.video, 1, 0)
        d == WithFallback("reply_document", env.document, 1)
    IN IF v.raised THEN [events |-> v.events, sent_ok |-> FALSE]
       ELSE IF v.sent THEN [events |-> v.events, sent_ok |-> TRUE]
       ELSE [events |-> v.events \o d.events, sent_ok |-> d.out = "ok"]

DeliveryEnvs ==
    [video : [1..MaxVideoCalls -> CallOutcomes],
     document : [1..MaxDocumentCalls -> CallOutcomes]]

\* handle_message from the delivery to the end of its finally block
Deliver ==
    /\ pc[1] = "idle"
    /\ LET r == Delivery(loc[1])
           fin == ShouldFinalize(r.sent_ok)
           o == [name |-> "finalize", u |-> 1, v |-> 0, kind |-> "free"]
       IN /\ hist' = [events |-> r.events,
                      reply |-> IF r.sent_ok THEN "effects_done" ELSE "error_try_again",
                      finalized |-> fin]
          /\ store' = IF fin THEN Awaited(o, Loaded, now) ELSE store
          /\ disk' = IF fin /\ Writes(o, Loaded) THEN "object" ELSE disk
    /\ pc' = [pc EXCEPT ![1] = "done"]
    /\ UNCHANGED <<tmp, now, lock, op, loc, ret, user_data, files>>

InitDeliver ==
    /\ store = EmptyDict
    /\ disk = "missing"
    /\ now = 1
    /\ user_data = EmptyDict
    /\ files = {}
    /\ tmp = NoTmp
    /\ lock = 0
    /\ pc = [t \in Solo |-> "idle"]
    /\ op = [t \in Solo |-> NoOp]
    /\ loc \in {[t \in Solo |-> e] : e \in DeliveryEnvs}
    /\ ret = [t \in Solo |-> ""]
    /\ hist = [events |-> <<>>, reply |-> "", finalized |-> FALSE]

NextDeliver == Deliver

SpecDeliver == InitDeliver /\ [][NextDeliver]_vars

\* the calls that were not turned down with TypeError before anything was
\* sent, and the pauses
Sends(events) == SelectSeq(events, LAMBDA e : e.out # "TypeError")

CallsOf(events, call) == SelectSeq(events, LAMBDA e : e.call = call)

TIKTOK_FILE_ID_CACHE_MAX == 3

\* str arguments of the calls; "" is the falsy one.
CacheVideoIds == {"", "v1", "v2", "v3", "v4", "v5"}
CacheFileIds == {"", "f1", "f2"}

CacheKeys(c) == {c[i].k : i \in 1..Len(c)}

\* dict.pop(k, None)
CachePop(c, k) == SelectSeq(c, LAMBDA e : e.k # k)

\* d[k] = v : an existing key keeps its position, a new key goes last.
CacheSet(c, k, v) ==
    IF k \in CacheKeys(c)
    THEN [i \in 1..Len(c) |-> IF c[i].k = k THEN [k |-> k, v |-> v] ELSE c[i]]
    ELSE Append(c, [k |-> k, v |-> v])

\* next(iter(d))
CacheOldest(c) == c[1].k

CacheEvict(c) ==
    IF Len(c) > TIKTOK_FILE_ID_CACHE_MAX THEN CachePop(c, CacheOldest(c)) ELSE c

_cache_tiktok_file_id_InPlace(c, video_id, file_id) ==
    IF video_id = "" \/ file_id = "" THEN c
    ELSE CacheEvict(CacheSet(c, video_id, file_id))

_cache_tiktok_file_id(c, video_id, file_id) ==
    IF video_id = "" \/ file_id = "" THEN c
    ELSE CacheEvict(CacheSet(
            IF video_id \in CacheKeys(c) THEN CachePop(c, video_id) ELSE c,
            video_id, file_id))

CacheCall(video_id, file_id) ==
    /\ tmp' = _cache_tiktok_file_id(tmp, video_id, file_id)
    /\ hist' = [video_id |-> video_id, file_id |-> file_id, before |-> tmp]
    /\ UNCHANGED <<store, disk, now, lock, pc, op, loc, ret, user_data, files>>

InitCache ==
    /\ store = EmptyDict
    /\ disk = "missing"
    /\ now = 1
    /\ user_data = EmptyDict
    /\ files = {}
    /\ tmp = << >>
    /\ lock = 0
    /\ pc = [t \in Solo |-> "idle"]
    /\ op = [t \in Solo |-> NoOp]
    /\ loc = [t \in Solo |-> EmptyDict]
    /\ ret = [t \in Solo |-> ""]
    /\ hist = [video_id |-> "", file_id |-> "", before |-> << >>]

NextCache == \E video_id \in CacheVideoIds, file_id \in CacheFileIds :
                CacheCall(video_id, file_id)

SpecCache == InitCache /\ [][NextCache]_vars

\* The entries of c other than key k, in their order.
Others(c, k) == SelectSeq(c, LAMBDA e : e.k # k)

\* C36: the cache never holds more than the maximum; after a call with a
\* non-empty id and file id the key is the newest entry with that file id,
\* also when it was cached before; the entries that were there keep their
\* order and values, except that when the bound would be exceeded exactly
\* the oldest one is gone; a call with an empty id or file id changes nothing.
C36_CacheBounded ==
    /\ Len(tmp) <= TIKTOK_FILE_ID_CACHE_MAX
    /\ \A i, j \in 1..Len(tmp) : tmp[i].k = tmp[j].k => i = j
    /\ (hist.video_id = "" \/ hist.file_id = "") => tmp = hist.before
    /\ (hist.video_id # "" /\ hist.file_id # "") =>
          LET kept == Others(hist.before, hist.video_id)
              rest == SubSeq(tmp, 1, Len(tmp) - 1)
          IN  /\ Len(tmp) >= 1
              /\ tmp[Len(tmp)] = [k |-> hist.video_id, v |-> hist.file_id]
              /\ IF Len(kept) + 1 > TIKTOK_FILE_ID_CACHE_MAX
                 THEN /\ rest = Tail(kept)
                      /\ kept[1] = hist.before[1]
                      /\ hist.before[1].k \notin CacheKeys(tmp)
                 ELSE rest = kept

\* C36 witness: a full cache whose oldest key is v2 and newest v1 took a new
\* key and lost v2.
C36_Witness ==
    /\ Len(hist.before) = TIKTOK_FILE_ID_CACHE_MAX
    /\ hist.video_id \notin CacheKeys(hist.before)
    /\ hist.video_id # "" /\ hist.file_id # ""
    /\ hist.before[1].k \notin CacheKeys(tmp)
    /\ hist.before[1].k = "v2"
    /\ hist.before[Len(hist.before)].k = "v1"
    /\ Len(tmp) = TIKTOK_FILE_ID_CACHE_MAX

\* ---------------------------------------------------------------------
\* Payments: precheckout_callback and successful_payment_handler.  An invoice
\* payload is the sequence of the parts that payload.split("|") gives, which
\* has at least one part; the empty sequence stands for a payload that is not
\* a str.
\* ---------------------------------------------------------------------

\* the decimal texts of the user ids
DecimalText == <<"1", "2", "3", "4">>

\* int(s) : the value, or the exception for a text that is not a number
ParseInt(s) ==
    IF \E n \in 1..Len(DecimalText) : DecimalText[n] = s
    THEN Returned(CHOOSE n \in 1..Len(DecimalText) : DecimalText[n] = s)
    ELSE [raised |-> TRUE, data |-> 0]

PayloadPrefixes == {"cx", "xx"}
PayloadProducts == {"premium_30d", "credits_10", "credits_50", "gift"}
PayloadUserIds == {DecimalText[u] : u \in Users} \cup {"me"}

NotStr == << >>

Payloads ==
    {NotStr}
    \cup {<<a>> : a \in PayloadPrefixes}
    \cup {<<a, b>> : a \in PayloadPrefixes, b \in PayloadProducts}
    \cup {<<a, b, c>> : a \in PayloadPrefixes, b \in PayloadProducts, c \in PayloadUserIds}
    \cup {<<"cx", "credits_10", c, "x">> : c \in PayloadUserIds}

\* isinstance(payload, str) and payload.startswith("cx|")
StartsWithCx(payload) ==
    /\ payload # NotStr
    /\ Len(payload) >= 2
    /\ payload[1] = "cx"

\* mutant: the user id of the payload is the target
TargetUser_FromPayload(payload, effective_user) ==
    LET parsed == ParseInt(payload[3])
    IN  IF parsed.raised THEN effective_user ELSE parsed.data

\* target_user_id after lines 2908-2915
TargetUser(payload, effective_user) ==
    LET parsed == ParseInt(payload[3])
        target_user_id == IF parsed.raised THEN effective_user ELSE parsed.data
    IN  IF target_user_id # effective_user THEN effective_user ELSE target_user_id

\* the ledger call the handler awaits for a payload; NoOp when it returns
\* before any call
PaymentOp(payload, effective_user) ==
    IF ~StartsWithCx(payload) THEN NoOp
    ELSE IF Len(payload) < 3 THEN NoOp
    ELSE LET product == payload[2]
             target_user_id == TargetUser(payload, effective_user)
         IN  CASE product = "premium_30d" ->
                    [name |-> "grant", u |-> target_user_id, v |-> PremiumSeconds, kind |-> ""]
               [] product = "credits_10" ->
                    [name |-> "add", u |-> target_user_id, v |-> 10, kind |-> ""]
               [] product = "credits_50" ->
                    [name |-> "add", u |-> target_user_id, v |-> 50, kind |-> ""]
               [] OTHER -> NoOp

Paid(handler, payload, effective_user, raised) ==
    [handler |-> handler, payload |-> payload, effective_user |-> effective_user,
     before |-> store, at |-> now, raised |-> raised]

\* successful_payment_handler; save tells whether the write of the ledger
\* call goes through or raises, which leaves the handler with the store as
\* it was.
SuccessfulPayment(payload, effective_user, save) ==
    LET o == PaymentOp(payload, effective_user)
    IN  /\ o.name = "grant" =>
              Max(now, PremiumUntil(store, o.u)) + o.v <= MaxUntil
        /\ o.name = "add" => Credits(store, o.u) <= MaxCredits
        /\ o = NoOp => save = "ok"
        /\ store' = IF save = "ok" THEN Awaited(o, Loaded, now) ELSE store
        /\ disk' = IF save = "ok" /\ o # NoOp THEN "object" ELSE disk
        /\ hist' = Paid("successful_payment_handler", payload, effective_user,
                        save # "ok")
        /\ UNCHANGED <<now, lock, pc, op, loc, ret, user_data, files, tmp>>

\* precheckout_callback answers the query and touches no ledger record.
PreCheckout(payload, effective_user) ==
    /\ ret' = [ret EXCEPT ![1] = IF StartsWithCx(payload) THEN "ok" ELSE "Invalid invoice"]
    /\ hist' = Paid("precheckout_callback", payload, effective_user, FALSE)
    /\ UNCHANGED <<store, disk, now, lock, pc, op, loc, user_data, files, tmp>>

InitPay ==
    /\ store \in {EmptyDict, TwoUserStore}
    /\ now = 1
    /\ TasksInit(Solo)
    /\ hist = Paid("", NotStr, 1, FALSE)

NextPay ==
    \/ \E payload \in Payloads, u \in Users : PreCheckout(payload, u)
    \/ \E payload \in Payloads, u \in Users, save \in {"ok", "raise"} :
            SuccessfulPayment(payload, u, save)

SpecPay == InitPay /\ [][NextPay]_vars

\* The product a payload names, or "" when the payload is not str, does not
\* start with cx|, has fewer than 3 parts or names no product.
ProductOf(payload) ==
    IF payload = << >> THEN ""
    ELSE IF Len(payload) < 3 \/ payload[1] # "cx" THEN ""
    ELSE IF payload[2] \in {"premium_30d", "credits_10", "credits_50"} THEN payload[2]
    ELSE ""

\* C37: after successful_payment_handler the record of every user other
\* than update.effective_user is as before; when the payload names a product
\* and the ledger write went through, the payer has that product, whatever
\* user id the payload carries; a payload that is not cx|product|..., or names
\* an unknown product, leaves the whole store as it was.
C37_PayerOnly ==
    hist.handler = "successful_payment_handler" =>
        LET payer == hist.effective_user
            product == ProductOf(hist.payload)
        IN  /\ \A u \in Users \ {payer} :
                  RecordOf(store, str(u)) = RecordOf(hist.before, str(u))
            /\ DOMAIN store \subseteq DOMAIN hist.before \cup {str(payer)}
            /\ product = "" => store = hist.before
            /\ hist.raised => store = hist.before
            /\ (product = "credits_10" /\ ~hist.raised) =>
                  /\ Credits(store, payer) = Credits(hist.before, payer) + 10
                  /\ PremiumUntil(store, payer) = PremiumUntil(hist.before, payer)
            /\ (product = "credits_50" /\ ~hist.raised) =>
                  /\ Credits(store, payer) = Credits(hist.before, payer) + 50
                  /\ PremiumUntil(store, payer) = PremiumUntil(hist.before, payer)
            /\ (product = "premium_30d" /\ ~hist.raised) =>
                  /\ PremiumUntil(store, payer) =
                        Max(hist.at, PremiumUntil(hist.before, payer)) + PremiumSeconds
                  /\ Credits(store, payer) = Credits(hist.before, payer)

\* C37 witness: user 1 paid an invoice whose payload carries the id of
\* another user and got the 50 credits.
C37_Witness ==
    /\ hist.handler = "successful_payment_handler"
    /\ hist.effective_user = 1
    /\ hist.payload = <<"cx", "credits_50", DecimalText[MaxUser]>>
    /\ ~hist.raised
    /\ Credits(store, 1) = Credits(hist.before, 1) + 50
    /\ Credits(store, MaxUser) = Credits(hist.before, MaxUser)

====
